---- MODULE Spec2Model ----
(***************************************************************************)
(* A model of the APTrust exchange ingest pipeline: the claim protocol on  *)
(* WorkItems, the store worker's saveFile, and the store -> record ->      *)
(* cleanup path of one WorkItem with its retries.                          *)
(*                                                                         *)
(* The module holds several state machines over disjoint variables:        *)
(*   SpecClaim  the handlers of two processes on the message of a WorkItem *)
(*   SpecStore  APTStorer.saveFile on one GenericFile, attempt by attempt  *)
(*   Spec       one WorkItem from the store topic to the end of cleanup    *)
(*   FairSpec   Spec with the workers' goroutines scheduled fairly         *)
(*   SpecUpload doUpload on one file, with the buckets and the temp file   *)
(*   SpecSend   S3Upload.Send choosing the part size for a file size       *)
(*   SpecRestore the Glacier restore initiator on one DPNWorkItem          *)
(*   SpecDecide WorkItem.ShouldTryIngest on the WorkItem of a bag           *)
(*   SpecReader the bucket reader creating WorkItems for the uploads       *)
(*   SpecValidate BagValidator.Validate on one bag and one validation config *)
(*   SpecUntar  tarfile.Reader.Untar on one manifest and one tar file       *)
(*   SpecVolume Volume.Reserve and Volume.Release on one volume             *)
(*   SpecCopy   the DPN Copier: HandleMessage and doCopy with the volume service *)
(*   SpecSync   DPNSync.Run over the nodes of the federation                *)
(*   SpecHandOff the goroutines of the store worker and their channels      *)
(*   SpecBatch  the batch loop of one store attempt over the staging DB     *)
(* Each specification keeps the other machines' variables at their idle    *)
(* values.                                                                 *)
(***************************************************************************)
EXTENDS Integers, Sequences, FiniteSets, TLC

VARIABLES
    regItem,     \* SpecClaim: the registry's WorkItem record
    wk,          \* SpecClaim: per worker task, its position and its copy of the WorkItem
    deliveries,  \* SpecClaim: how many times the broker has delivered the message
    sGf,         \* SpecStore: the GenericFile as the staging DB holds it
    sPrior,      \* SpecStore: the registry's prior version of the file
    sSt,         \* SpecStore: the StorageSummary saveFile works on, with its upload log
    sPc,         \* SpecStore: where saveFile stands
    sPuts,       \* SpecStore: every (destination, key) an upload was sent to
    sVerified,   \* SpecStore: every (destination, key) with an attempt whose listing and uploader were good
    sCalls,      \* SpecStore: how many times saveFile ran on the file
    workItem,    \* Spec: the WorkItem
    manifest,    \* Spec: IngestManifest, its StoreResult and RecordResult
    db,          \* Spec: the staging DB, the object and its GenericFiles
    pharos,      \* Spec: the registry: object id, events, files, batch POSTs received
    nsq,         \* Spec: messages waiting on the store and record topics
    pc,          \* Spec: the goroutine that holds the IngestState
    lastOutcome, \* Spec: how the latest attempt of a stage ended
    evGen,       \* Spec: how many times the object events were constructed
    registryPrior, \* Spec: the registry's prior version of each file
    bagInStaging, \* Spec: the tar is in the staging area
    dbInStaging, \* Spec: the staging DB (.valdb) is in the staging area
    tarDeleted,  \* Spec: the tar was deleted from the receiving bucket
    cleanupRun,  \* Spec: what the latest run of deleteBagFromReceivingBucket met and did
    summaries,   \* Spec: what the saveFile goroutines of the running batch returned
    uGf,         \* SpecUpload: the GenericFile saveFile works on
    uBucket,     \* SpecUpload: per bucket, the size of the object stored under the file's UUID
    uTemp,       \* SpecUpload: the size of <TarDirectory>/tmp/<uuid>, NoFile when absent
    uPc,         \* SpecUpload: where saveFile stands
    uN,          \* SpecUpload: attemptNumber of the running copyToLongTermStorage
    uErrs,       \* SpecUpload: StoreResult.Errors of the StorageSummary
    uSends,      \* SpecUpload: what uploader.Send was given and what the listing after it saw
    uRemoved,    \* SpecUpload: cleanupTempFile has removed the temp file
    uRuns,       \* SpecUpload: how many times saveFile ran on the file
    s3Upload,    \* SpecSend: the S3Upload and the s3manager uploader Send configures
    rItem,       \* SpecRestore: the registry's DPNWorkItem
    rState,      \* SpecRestore: the DPNGlacierRestoreState of the message in hand
    rMine,       \* SpecRestore: state.DPNWorkItem, the worker's copy of the item
    rPc,         \* SpecRestore: the channel that holds the state
    rMsg,        \* SpecRestore: the broker message: attempts, status, requeue delay
    rGlacier,    \* SpecRestore: the object in the archival bucket
    rHist,       \* SpecRestore: what the handling of the latest message did
    rDownload,   \* SpecRestore: how many ids were enqueued on the download topic
    rSaved,      \* SpecRestore: the item last handed to PharosClient.DPNWorkItemSave
    qItem,       \* SpecDecide: the WorkItem the bucket reader found for a bag
    qTry,        \* SpecDecide: what ShouldTryIngest answered for it
    bBucket,     \* SpecReader: the objects of the receiving bucket, one per key
    bRegistry,   \* SpecReader: the WorkItems of the registry
    bStats,      \* SpecReader: APTBucketReaderStats of the running bucket reader
    bTodo,       \* SpecReader: the objects of the listing the run has yet to process
    bPc,         \* SpecReader: whether a run of the bucket reader is under way
    bPrev,       \* SpecReader: the bucket as the latest finished run listed it
    bRuns,       \* SpecReader: how many runs were started
    bUploads,    \* SpecReader: how many uploads the partner made
    vBag,        \* SpecValidate: what virtualBag.Read returns for the bag: object, files, tags, parse errors
    vConfig,     \* SpecValidate: the BagValidationConfig
    vResult,     \* SpecValidate: the ValidationResult and how Validate ended
    tManifest,   \* SpecUntar: the IngestManifest of the Reader: Object and the Untar summary
    tArchive,    \* SpecUntar: the tar file at IngestTarFilePath, entry by entry, and the disk
    tRun,        \* SpecUntar: what Untar did: the answer of ManifestInfoIsValid, the file opened, the entries extracted
    volume,      \* SpecVolume: the Volume: its path, the free space of the disk and the reservations
    volLast,     \* SpecVolume: the last call on the Volume and its answer
    volHeld,     \* SpecVolume: the paths whose Reserve succeeded and that were not released since, with their bytes
    volEver,     \* SpecVolume: the paths Reserve ever succeeded on
    volRejected, \* SpecVolume: the request Reserve rejected last and that has not succeeded since
    cChannel,    \* SpecCopy: Copier.CopyChannel, the CopyManifests waiting for doCopy
    cVolume,     \* SpecCopy: the volume service: whether it answers, its free space and the reservations it granted
    cCopies,     \* SpecCopy: the manifests doCopy took, what it asked of the volume service and whether rsync ran
    cMessages,   \* SpecCopy: the broker messages: touches, Finish and Requeue received
    cPanic,      \* SpecCopy: the copier process has panicked
    syncNodes,   \* SpecSync: what the registries answer: the node list or its error, and the step that fails for each remote node
    syncRun,     \* SpecSync: what DPNSync.Run did: the steps run for each node and the value returned
    hoBroker,    \* SpecHandOff: the store and record topics and the answers the broker got
    hoManifest,  \* SpecHandOff: the IngestManifest of the ingest state the goroutines share
    hoItem,      \* SpecHandOff: the WorkItem
    hoStorer,    \* SpecHandOff: where store and record stand, the DB handle, whether the process is down
    hoChan,      \* SpecHandOff: how many times the state is in each channel
    hoLedger,    \* SpecHandOff: states taken from StorageChannel, sends, answers and marks so far
    hoRegistry,  \* SpecHandOff: the WorkItem state the registry holds
    hoReader,    \* SpecHandOff: what the record worker read on receiving the id
    btDb,        \* SpecBatch: the number of files in the staging DB and NetworkConnections
    btRun,       \* SpecBatch: where the batch loop stands, its start offset and the running saveFile goroutines
    btHanded,    \* SpecBatch: the files handed to saveFile so far, in order, each with its batch
    btReturned   \* SpecBatch: the files whose saveFile has returned

claimVars == <<regItem, wk, deliveries>>
storeVars == <<sGf, sPrior, sSt, sPc, sPuts, sVerified, sCalls>>

pipeVars == <<workItem, manifest, db, pharos, nsq, pc, lastOutcome, evGen, registryPrior,
              bagInStaging, dbInStaging, tarDeleted, cleanupRun, summaries>>

uploadVars == <<uGf, uBucket, uTemp, uPc, uN, uErrs, uSends, uRemoved, uRuns>>

vars == <<regItem, wk, deliveries, sGf, sPrior, sSt, sPc, sPuts, sVerified, sCalls,
          workItem, manifest, db, pharos, nsq, pc, lastOutcome, evGen, registryPrior,
          bagInStaging, dbInStaging, tarDeleted, cleanupRun, summaries,
          uGf, uBucket, uTemp, uPc, uN, uErrs, uSends, uRemoved, uRuns,
          s3Upload,
          rItem, rState, rMine, rPc, rMsg, rGlacier, rHist, rDownload, rSaved,
          qItem, qTry,
          bBucket, bRegistry, bStats, bTodo, bPc, bPrev, bRuns, bUploads,
          vBag, vConfig, vResult,
          tManifest, tArchive, tRun,
          volume, volLast, volHeld, volEver, volRejected,
          cChannel, cVolume, cCopies, cMessages, cPanic,
          syncNodes, syncRun,
          hoBroker, hoManifest, hoItem, hoStorer, hoChan, hoLedger, hoRegistry, hoReader,
          btDb, btRun, btHanded, btReturned>>

sendVars == <<s3Upload>>
restoreVars == <<rItem, rState, rMine, rPc, rMsg, rGlacier, rHist, rDownload, rSaved>>
decideVars == <<qItem, qTry>>
readerVars == <<bBucket, bRegistry, bStats, bTodo, bPc, bPrev, bRuns, bUploads>>
validateVars == <<vBag, vConfig, vResult>>
untarVars == <<tManifest, tArchive, tRun>>
volumeVars == <<volume, volLast, volHeld, volEver, volRejected>>
copyVars == <<cChannel, cVolume, cCopies, cMessages, cPanic>>
syncVars == <<syncNodes, syncRun>>
handOffVars == <<hoBroker, hoManifest, hoItem, hoStorer, hoChan, hoLedger, hoRegistry, hoReader>>
batchVars == <<btDb, btRun, btHanded, btReturned>>

otherThanClaim == <<storeVars, pipeVars, uploadVars, sendVars, restoreVars, decideVars, readerVars, validateVars, untarVars, volumeVars, copyVars, syncVars, handOffVars, batchVars>>
otherThanStore == <<claimVars, pipeVars, uploadVars, sendVars, restoreVars, decideVars, readerVars, validateVars, untarVars, volumeVars, copyVars, syncVars, handOffVars, batchVars>>
otherThanPipe == <<claimVars, storeVars, uploadVars, sendVars, restoreVars, decideVars, readerVars, validateVars, untarVars, volumeVars, copyVars, syncVars, handOffVars, batchVars>>
otherThanUpload == <<claimVars, storeVars, pipeVars, sendVars, restoreVars, decideVars, readerVars, validateVars, untarVars, volumeVars, copyVars, syncVars, handOffVars, batchVars>>
otherThanSend == <<claimVars, storeVars, pipeVars, uploadVars, restoreVars, decideVars, readerVars, validateVars, untarVars, volumeVars, copyVars, syncVars, handOffVars, batchVars>>
otherThanRestore == <<claimVars, storeVars, pipeVars, uploadVars, sendVars, decideVars, readerVars, validateVars, untarVars, volumeVars, copyVars, syncVars, handOffVars, batchVars>>
otherThanDecide == <<claimVars, storeVars, pipeVars, uploadVars, sendVars, restoreVars, readerVars, validateVars, untarVars, volumeVars, copyVars, syncVars, handOffVars, batchVars>>
otherThanReader == <<claimVars, storeVars, pipeVars, uploadVars, sendVars, restoreVars, decideVars, validateVars, untarVars, volumeVars, copyVars, syncVars, handOffVars, batchVars>>
otherThanValidate == <<claimVars, storeVars, pipeVars, uploadVars, sendVars, restoreVars, decideVars, readerVars, untarVars, volumeVars, copyVars, syncVars, handOffVars, batchVars>>
otherThanUntar == <<claimVars, storeVars, pipeVars, uploadVars, sendVars, restoreVars, decideVars, readerVars, validateVars, volumeVars, copyVars, syncVars, handOffVars, batchVars>>
otherThanVolume == <<claimVars, storeVars, pipeVars, uploadVars, sendVars, restoreVars, decideVars, readerVars, validateVars, untarVars, copyVars, syncVars, handOffVars, batchVars>>
otherThanCopy == <<claimVars, storeVars, pipeVars, uploadVars, sendVars, restoreVars, decideVars, readerVars, validateVars, untarVars, volumeVars, syncVars, handOffVars, batchVars>>
otherThanSync == <<claimVars, storeVars, pipeVars, uploadVars, sendVars, restoreVars, decideVars, readerVars, validateVars, untarVars, volumeVars, copyVars, handOffVars, batchVars>>
otherThanHandOff == <<claimVars, storeVars, pipeVars, uploadVars, sendVars, restoreVars, decideVars, readerVars, validateVars, untarVars, volumeVars, copyVars, syncVars, batchVars>>
otherThanBatch == <<claimVars, storeVars, pipeVars, uploadVars, sendVars, restoreVars, decideVars, readerVars, validateVars, untarVars, volumeVars, copyVars, syncVars, handOffVars>>

(***************************************************************************)
(* Constants of the program (src/constants/constants.go).                  *)
(***************************************************************************)
StatusStarted == "Started"
StatusPending == "Pending"
StatusSuccess == "Success"
StatusFailed == "Failed"

StageStore == "Store"
StageRecord == "Record"
StageCleanup == "Cleanup"

StatusCancelled == "Cancelled"
StageRequested == "Requested"
StageAvailableInS3 == "AvailableInS3"

StageReceive == "Receive"
StageFetch == "Fetch"
StageUnpack == "Unpack"
StageValidate == "Validate"
StageResolve == "Resolve"

StatusTypes == {StatusStarted, StatusPending, StatusSuccess, StatusFailed, StatusCancelled}

StageTypes ==
    {StageRequested, StageReceive, StageFetch, StageUnpack, StageValidate,
     StageStore, StageRecord, StageCleanup, StageResolve}

ActionIngest == "Ingest"
ActionFixityCheck == "Fixity Check"
ActionRestore == "Restore"
ActionDelete == "Delete"

ActionTypes == {ActionIngest, ActionFixityCheck, ActionRestore, ActionDelete}

(***************************************************************************)
(*                       The claim protocol (SpecClaim)                    *)
(***************************************************************************)

\* How many times the broker hands out the message of the WorkItem.
MaxDeliveries == 3

\* Worker tasks: the goroutines the broker's consumer runs HandleMessage in.
\* t1 and t3 are two handlers of one worker process, t2 runs in a process
\* on a different host.
Tasks == {"t1", "t2", "t3"}

\* os.Hostname() and os.Getpid() of the process a task runs in.
ProcOf(t) == IF t = "t2" THEN [node |-> "hostB", pid |-> 202]
                         ELSE [node |-> "hostA", pid |-> 101]

\* WorkItem.SetNodeAndPid
SetNodeAndPid(item, proc) == [item EXCEPT !.node = proc.node, !.pid = proc.pid]

\* WorkItem.BelongsToAnotherWorker
BelongsToAnotherWorker(item, proc) ==
    IF item.node = "" THEN FALSE
    ELSE item.node # proc.node \/ item.pid # proc.pid

\* WorkItem.IsInProgress as HandleMessage uses it: the item is claimed by a
\* (node, pid) that is not the current process.
IsInProgress(item, proc) == BelongsToAnotherWorker(item, proc)

\* The broker delivers the WorkItem id to a task that is waiting for messages.
Deliver(t) ==
    /\ wk[t].pc = "idle"
    /\ deliveries < MaxDeliveries
    /\ deliveries' = deliveries + 1
    /\ wk' = [wk EXCEPT ![t].pc = "received"]
    /\ UNCHANGED regItem
    /\ UNCHANGED otherThanClaim

\* HandleMessage, GetIngestState: read the current WorkItem from the registry.
GetIngestState(t) ==
    /\ wk[t].pc = "received"
    /\ wk' = [wk EXCEPT ![t] = [pc |-> "fetched", item |-> regItem]]
    /\ UNCHANGED <<regItem, deliveries>>
    /\ UNCHANGED otherThanClaim

\* HandleMessage: skip the item (message.Finish) when it is in progress.
SkipOrProceed(t) ==
    /\ wk[t].pc = "fetched"
    /\ wk' = [wk EXCEPT ![t].pc =
                IF IsInProgress(wk[t].item, ProcOf(t)) THEN "idle" ELSE "claiming"]
    /\ UNCHANGED <<regItem, deliveries>>
    /\ UNCHANGED otherThanClaim

\* HandleMessage, MarkWorkItemStarted: set node, pid, stage and
\* status=Started on the task's copy and write it back to the registry.
MarkStartedItem(item, proc, stage) ==
    [SetNodeAndPid(item, proc) EXCEPT !.stage = stage, !.status = StatusStarted]

MarkWorkItemStarted(t) ==
    /\ wk[t].pc = "claiming"
    /\ LET mine == MarkStartedItem(wk[t].item, ProcOf(t), StageStore)
       IN /\ regItem' = mine
          /\ wk' = [wk EXCEPT ![t] = [pc |-> "storing", item |-> mine]]
    /\ UNCHANGED deliveries
    /\ UNCHANGED otherThanClaim

\* The end of the store run (record): the task releases its claim and
\* writes its copy of the WorkItem back.
ReleaseItem(item, ok) ==
    [item EXCEPT !.node = "", !.pid = 0,
                 !.status = IF ok THEN StatusPending ELSE StatusFailed,
                 !.stage = IF ok THEN StageRecord ELSE item.stage]

FinishStoreRun(t) ==
    /\ wk[t].pc = "storing"
    /\ \E ok \in BOOLEAN :
         LET mine == ReleaseItem(wk[t].item, ok)
         IN /\ regItem' = mine
            /\ wk' = [wk EXCEPT ![t] = [pc |-> "idle", item |-> mine]]
    /\ UNCHANGED deliveries
    /\ UNCHANGED otherThanClaim

ClaimNext ==
    \E t \in Tasks :
        \/ Deliver(t)
        \/ GetIngestState(t)
        \/ SkipOrProceed(t)
        \/ MarkWorkItemStarted(t)
        \/ FinishStoreRun(t)

(***************************************************************************)
(*                 APTStorer.saveFile on one file (SpecStore)              *)
(***************************************************************************)

\* How many times saveFile runs on the file (one run per store attempt).
MaxSaveCalls == 2

MAX_UPLOAD_ATTEMPTS == 15

\* sendWhere
Dests == {"s3", "glacier"}

\* initUploader: the bucket an upload to sendWhere is sent to.
BucketOf(dest) == IF dest = "s3" THEN "PreservationBucket" ELSE "ReplicationBucket"

\* uploader.Response.Location of an upload of key to sendWhere.
Location(dest, key) == [bucket |-> BucketOf(dest), key |-> key]

\* The empty URL string.
NoURL == [bucket |-> "", key |-> ""]

\* What one doUpload meets: whether the tar entry reader could be opened,
\* whether the listing by UUID returned an object, whether that object's
\* size equals gf.Size, and whether the uploader reported an error.
GoodOutcome == [reader |-> TRUE, found |-> TRUE, sizeOk |-> TRUE, err |-> FALSE]

BadOutcomes ==
    { [reader |-> FALSE, found |-> FALSE, sizeOk |-> FALSE, err |-> FALSE],
      [reader |-> TRUE, found |-> FALSE, sizeOk |-> FALSE, err |-> FALSE],
      [reader |-> TRUE, found |-> FALSE, sizeOk |-> FALSE, err |-> TRUE],
      [reader |-> TRUE, found |-> TRUE, sizeOk |-> FALSE, err |-> FALSE],
      [reader |-> TRUE, found |-> TRUE, sizeOk |-> TRUE, err |-> TRUE] }

\* The course of the uploads to one destination: attempt number okAt meets
\* GoodOutcome (0: none does), every other attempt meets bad.
UploadPlans == [okAt : {0, 1, 2, MAX_UPLOAD_ATTEMPTS}, bad : BadOutcomes]

OutcomeAt(plan, n) == IF n = plan.okAt THEN GoodOutcome ELSE plan.bad

\* The GenericFile the validator left in the staging DB.
NewGenericFile(savable) ==
    [savable |-> savable, needsSave |-> TRUE, prevExists |-> FALSE, id |-> 0,
     uuid |-> "fresh-uuid", sha256 |-> "digest-a",
     storedAt |-> FALSE, storageURL |-> NoURL,
     replicatedAt |-> FALSE, replicationURL |-> NoURL]

\* The registry's record of a prior version of the file: its latest sha256
\* checksum, the GenericFile id on that checksum, and whether the last part
\* of its URI looks like a UUID.
NoPrior == [exists |-> FALSE, sha256 |-> "", id |-> 0, uuid |-> "", uriOk |-> FALSE]

PriorVersions ==
    {NoPrior} \cup
    [exists : {TRUE}, sha256 : {"digest-a", "digest-b"}, id : {7},
     uuid : {"prior-uuid"}, uriOk : BOOLEAN]

\* markFileAsStored
markFileAsStored(gf, dest, url) ==
    IF dest = "s3"
    THEN [gf EXCEPT !.storedAt = TRUE, !.storageURL = url]
    ELSE [gf EXCEPT !.replicatedAt = TRUE, !.replicationURL = url]

\* doUpload with uploadSucceeded not looking at uploader.ErrorMessage.
doUpload_IgnoringUploaderError(st, dest, n, o) ==
    IF ~o.reader
    THEN [st EXCEPT !.errs = @ \cup {"no reader for tar entry"}]
    ELSE
      LET sent == [dest |-> dest, key |-> st.gf.uuid, n |-> n,
                   listed |-> (o.found /\ o.sizeOk), err |-> o.err]
      IN [st EXCEPT
            !.gf = IF o.found /\ o.sizeOk
                   THEN markFileAsStored(st.gf, dest, Location(dest, st.gf.uuid))
                   ELSE st.gf,
            !.log = Append(@, sent)]

\* doUpload adding its errors to the store result on every failed attempt.
doUpload_ErrorOnEveryAttempt(st, dest, n, o) ==
    IF ~o.reader
    THEN [st EXCEPT !.errs = @ \cup {"no reader for tar entry"}]
    ELSE
      LET e1 == IF ~o.found THEN {"returned nothing"}
                ELSE IF ~o.sizeOk THEN {"returned wrong size"}
                ELSE {}
          uploadSucceeded == o.found /\ o.sizeOk /\ ~o.err
          e2 == IF ~uploadSucceeded /\ o.err THEN {"upload error"} ELSE {}
          sent == [dest |-> dest, key |-> st.gf.uuid, n |-> n,
                   listed |-> (o.found /\ o.sizeOk), err |-> o.err]
      IN [st EXCEPT
            !.gf = IF uploadSucceeded
                   THEN markFileAsStored(st.gf, dest, Location(dest, st.gf.uuid))
                   ELSE st.gf,
            !.errs = @ \cup e1 \cup e2,
            !.log = Append(@, sent)]

\* doUpload, attempt number n, meeting outcome o. st is the StorageSummary
\* (gf, errs, fatal) with the log of the uploads sent.
doUpload(st, dest, n, o) ==
    IF ~o.reader
    THEN [st EXCEPT !.errs = @ \cup {"no reader for tar entry"}]
    ELSE
      LET last == (n = MAX_UPLOAD_ATTEMPTS)
          e1 == IF ~o.found /\ last THEN {"returned nothing"}
                ELSE IF o.found /\ ~o.sizeOk /\ last THEN {"returned wrong size"}
                ELSE {}
          uploadSucceeded == o.found /\ o.sizeOk /\ ~o.err
          e2 == IF ~uploadSucceeded /\ o.err /\ last THEN {"upload error"} ELSE {}
          sent == [dest |-> dest, key |-> st.gf.uuid, n |-> n,
                   listed |-> (o.found /\ o.sizeOk), err |-> o.err]
      IN [st EXCEPT
            !.gf = IF uploadSucceeded
                   THEN markFileAsStored(st.gf, dest, Location(dest, st.gf.uuid))
                   ELSE st.gf,
            !.errs = @ \cup e1 \cup e2,
            !.log = Append(@, sent)]

\* Whether the file is marked stored in the destination.
IsMarked(gf, dest) == IF dest = "s3" THEN gf.storedAt ELSE gf.replicatedAt

\* copyToLongTermStorage: the loop over attemptNumber, from n on. The
\* singleton set gives the StorageSummary after attempt n a value of its own.
RECURSIVE uploadLoop(_, _, _, _)
uploadLoop(st, dest, plan, n) ==
    IF n > MAX_UPLOAD_ATTEMPTS THEN st
    ELSE CHOOSE result \in
             { IF IsMarked(after.gf, dest) THEN after
               ELSE uploadLoop(after, dest, plan, n + 1) :
                   after \in {doUpload(st, dest, n, OutcomeAt(plan, n))} } : TRUE

\* util.LooksLikeUUID(gf.IngestUUID)
uuidPresent(gf) == gf.uuid # ""

copyToLongTermStorage(st, dest, plan) ==
    IF ~uuidPresent(st.gf)
    THEN [st EXCEPT !.errs = @ \cup {"UUID is missing"}, !.fatal = TRUE]
    ELSE uploadLoop(st, dest, plan, 1)

\* changedSincePreviousVersion
changedSincePreviousVersion(st, prior, getErr) ==
    IF getErr \/ ~prior.uriOk
    THEN [st EXCEPT !.errs = @ \cup {"cannot find existing UUID"}, !.fatal = TRUE]
    ELSE LET withUuid == [st EXCEPT !.gf.uuid = prior.uuid]
         IN IF prior.sha256 = st.gf.sha256
            THEN [withUuid EXCEPT !.gf.needsSave = FALSE]
            ELSE withUuid

\* NewStorageSummary: a fresh StorageSummary for gf. log lists the uploads
\* sent during this saveFile; saved tells whether db.Save was reached.
NewStorageSummary(gf) ==
    [gf |-> gf, errs |-> {}, fatal |-> FALSE, log |-> <<>>, saved |-> FALSE,
     returned |-> FALSE]

\* saveFile up to "Now copy to storage only if the file has changed": the
\* savable-name test and the look-up of a prior version. returned tells
\* that saveFile returned early, after a failed checksum look-up.
checkPreviousVersion(st, prior, shaErr, getErr) ==
    IF ~st.gf.savable
    THEN [st EXCEPT !.gf.needsSave = FALSE]
    ELSE IF shaErr
    THEN [st EXCEPT !.errs = @ \cup {"checksum lookup failed"}, !.returned = TRUE]
    ELSE IF prior.exists
    THEN changedSincePreviousVersion(
             [st EXCEPT !.gf.prevExists = TRUE, !.gf.id = prior.id], prior, getErr)
    ELSE st

\* The copy to the primary bucket without the test of IngestStoredAt and
\* IngestStorageURL.
copyPrimary_WithoutStoredTest(st, plan) ==
    IF st.gf.needsSave THEN copyToLongTermStorage(st, "s3", plan) ELSE st

\* saveFile: the copy to the primary bucket.
copyPrimary(st, plan) ==
    IF st.gf.needsSave /\ (~st.gf.storedAt \/ st.gf.storageURL = NoURL)
    THEN copyToLongTermStorage(st, "s3", plan) ELSE st

\* saveFile: the copy to the replica bucket.
copyReplica(st, plan) ==
    IF st.gf.needsSave /\ (~st.gf.replicatedAt \/ st.gf.replicationURL = NoURL)
    THEN copyToLongTermStorage(st, "glacier", plan) ELSE st

\* saveFile: db.Save(gf.Identifier, gf)
dbSave(st) == [st EXCEPT !.saved = TRUE]

\* What the registry and the object store answer during one saveFile.
SaveEnvs == [shaErr : BOOLEAN, getErr : BOOLEAN, s3 : UploadPlans, glacier : UploadPlans]

\* saveFile on the GenericFile gf, from its first line to its return: the
\* look-up of a prior version, the copy to the primary bucket, the copy to
\* the replica bucket, db.Save.
saveFile(gf, prior, env) ==
    CHOOSE result \in
        { IF checked.returned THEN checked
          ELSE CHOOSE saved \in
                   { dbSave(copyReplica(primary, env.glacier)) :
                         primary \in {copyPrimary(checked, env.s3)} } : TRUE :
              checked \in {checkPreviousVersion(NewStorageSummary(gf), prior,
                                                env.shaErr, env.getErr)} } : TRUE

\* The upload attempts of a log after which the listing by UUID returned an
\* object of the file's size and the uploader had reported no error.
VerifiedIn(log) ==
    {[dest |-> log[i].dest, key |-> log[i].key] :
        i \in {j \in DOMAIN log : log[j].listed /\ ~log[j].err}}

PutsIn(log) == {[dest |-> log[i].dest, key |-> log[i].key] : i \in DOMAIN log}

\* saveFile is called for the file of the batch: store(), getStorageSummaryBatch.
BeginSaveFile ==
    /\ sPc = "idle"
    /\ sCalls < MaxSaveCalls
    /\ sCalls' = sCalls + 1
    /\ sSt' = NewStorageSummary(sGf)
    /\ sPc' = "check"
    /\ UNCHANGED <<sGf, sPrior, sPuts, sVerified>>
    /\ UNCHANGED otherThanStore

CheckPreviousVersion ==
    /\ sPc = "check"
    /\ \E shaErr \in BOOLEAN, getErr \in BOOLEAN :
         LET out == checkPreviousVersion(sSt, sPrior, shaErr, getErr)
         IN /\ sSt' = out
            /\ sPc' = IF out.returned THEN "idle" ELSE "primary"
    /\ UNCHANGED <<sGf, sPrior, sPuts, sVerified, sCalls>>
    /\ UNCHANGED otherThanStore

CopyPrimary ==
    /\ sPc = "primary"
    /\ \E plan \in UploadPlans :
         LET out == copyPrimary(sSt, plan)
         IN /\ sSt' = out
            /\ sPuts' = sPuts \cup PutsIn(out.log)
            /\ sVerified' = sVerified \cup VerifiedIn(out.log)
    /\ sPc' = "replica"
    /\ UNCHANGED <<sGf, sPrior, sCalls>>
    /\ UNCHANGED otherThanStore

CopyReplica ==
    /\ sPc = "replica"
    /\ \E plan \in UploadPlans :
         LET out == copyReplica(sSt, plan)
         IN /\ sSt' = out
            /\ sPuts' = sPuts \cup PutsIn(out.log)
            /\ sVerified' = sVerified \cup VerifiedIn(out.log)
    /\ sPc' = "save"
    /\ UNCHANGED <<sGf, sPrior, sCalls>>
    /\ UNCHANGED otherThanStore

DbSave ==
    /\ sPc = "save"
    /\ sSt' = dbSave(sSt)
    /\ sGf' = sSt.gf
    /\ sPc' = "idle"
    /\ UNCHANGED <<sPrior, sPuts, sVerified, sCalls>>
    /\ UNCHANGED otherThanStore

StoreNext ==
    \/ BeginSaveFile
    \/ CheckPreviousVersion
    \/ CopyPrimary
    \/ CopyReplica
    \/ DbSave

(***************************************************************************)
(*      doUpload with the buckets and the temp file on disk (SpecUpload)   *)
(*                                                                         *)
(* saveFile on one file that needs saving and has no prior version. The    *)
(* sizes are in MiB. An upload that the uploader reports as done leaves in *)
(* the bucket what the body delivered, or, with the zero-size fault of     *)
(* PT #143660373, an empty object.                                         *)
(***************************************************************************)

\* How many times saveFile runs on the file (one run per store attempt).
MaxUploadRuns == 2

\* constants.S3LargeFileSize
S3LargeFileSize == 5120

\* gf.Size of the file
FileSizes == {S3LargeFileSize - 1, S3LargeFileSize, S3LargeFileSize + 1}

\* No file at a path, no object under a key.
NoFile == -1

Buckets == {BucketOf(dest) : dest \in Dests}

\* doUpload: the test that sends the file through getFileReader.
isLargeFile(gf) == gf.size > S3LargeFileSize

\* createTempFile: io.Copy from the tar entry reader to the temp file. The
\* copy reads the reader to its end or stops short with an error.
createTempFile(gf, copy) ==
    IF copy = "full" THEN [temp |-> gf.size, err |-> FALSE]
    ELSE [temp |-> 0, err |-> TRUE]

\* getFileReader: the temp file after the call, whether the call returned an
\* error, and how many bytes the tar entry reader still has to deliver.
getFileReader(temp, gf, copy) ==
    LET made == IF temp = NoFile THEN createTempFile(gf, copy)
                ELSE [temp |-> temp, err |-> FALSE]
        left == IF temp = NoFile THEN 0 ELSE gf.size
    IN IF made.err
       THEN [temp |-> made.temp, err |-> TRUE, readerLeft |-> left, file |-> FALSE]
       ELSE IF made.temp = gf.size
       THEN [temp |-> made.temp, err |-> FALSE, readerLeft |-> left, file |-> TRUE]
       ELSE [temp |-> made.temp, err |-> TRUE, readerLeft |-> left, file |-> FALSE]

\* S3Upload.Send of a body that delivers bytes to the bucket of sendWhere.
Send(bucket, dest, bytes, outcome) ==
    IF outcome = "ok" THEN [bucket EXCEPT ![BucketOf(dest)] = bytes]
    ELSE IF outcome = "short" THEN [bucket EXCEPT ![BucketOf(dest)] = 0]
    ELSE bucket

\* getS3FileDetail: the first object the listing by UUID returns, and the
\* bucket the listing was made against.
getS3FileDetail(bucket) ==
    [bucket |-> "PreservationBucket", size |-> bucket["PreservationBucket"]]

\* What one doUpload meets: whether the tar entry reader could be opened,
\* how the copy to the temp file went, and how the upload went.
UploadEnvs == [reader : BOOLEAN, copy : {"full", "short"}, send : {"ok", "short", "error"}]

\* doUpload, attempt number n, on u = (gf, bucket, temp, errs, sends).
doUploadWithBuckets(u, dest, n, env) ==
    IF ~env.reader
    THEN [u EXCEPT !.errs = @ \cup {"no reader for tar entry"}]
    ELSE
      LET readCloser == [body |-> "tar entry reader", left |-> u.gf.size]
          \* reader := readCloser
          outer == readCloser
          \* reader, err := storer.getFileReader(...) declares a reader of the
          \* inner block; the reader of the outer block keeps its value, but
          \* io.Copy has moved the tar entry reader
          got == IF isLargeFile(u.gf) THEN getFileReader(u.temp, u.gf, env.copy)
                 ELSE [temp |-> u.temp, err |-> FALSE, readerLeft |-> u.gf.size,
                       file |-> FALSE]
          body == [outer EXCEPT !.left = got.readerLeft]
      IN IF got.err
         THEN [u EXCEPT !.temp = got.temp,
                        !.errs = @ \cup {"error copying from tarfile to filesystem"}]
         ELSE
           LET last == (n = MAX_UPLOAD_ATTEMPTS)
               after == Send(u.bucket, dest, body.left, env.send)
               uploaderError == (env.send = "error")
               s3Obj == getS3FileDetail(after)
               e1 == IF s3Obj.size = NoFile /\ last THEN {"returned nothing"}
                     ELSE IF s3Obj.size # NoFile /\ s3Obj.size # u.gf.size /\ last
                     THEN {"returned wrong size"}
                     ELSE {}
               uploadSucceeded == /\ s3Obj.size # NoFile
                                  /\ s3Obj.size = u.gf.size
                                  /\ ~uploaderError
               e2 == IF ~uploadSucceeded /\ uploaderError /\ last
                     THEN {"upload error"} ELSE {}
               sent == [dest |-> dest, body |-> body.body, bytes |-> body.left,
                        large |-> isLargeFile(u.gf), onDisk |-> (got.temp = u.gf.size),
                        listed |-> s3Obj.bucket, accepted |-> uploadSucceeded]
           IN [u EXCEPT
                 !.gf = IF uploadSucceeded
                        THEN markFileAsStored(u.gf, dest, Location(dest, u.gf.uuid))
                        ELSE u.gf,
                 !.bucket = after,
                 !.temp = got.temp,
                 !.errs = @ \cup e1 \cup e2,
                 !.sends = @ \cup {sent}]

\* cleanupTempFile without the test of IngestReplicatedAt.
cleanupTempFile_AfterPrimaryAlone(temp, gf, looksSafeToDelete) ==
    IF temp = NoFile THEN temp
    ELSE IF gf.storedAt /\ looksSafeToDelete THEN NoFile
    ELSE temp

\* cleanupTempFile: the temp file after the call.
cleanupTempFile(temp, gf, looksSafeToDelete) ==
    IF temp = NoFile THEN temp
    ELSE IF gf.storedAt /\ gf.replicatedAt /\ looksSafeToDelete THEN NoFile
    ELSE temp

\* saveFile: which copy comes next, given the marks on the file.
needsPrimary(gf) == gf.needsSave /\ (~gf.storedAt \/ gf.storageURL = NoURL)
needsReplica(gf) == gf.needsSave /\ (~gf.replicatedAt \/ gf.replicationURL = NoURL)

afterPrimary(gf) == IF needsReplica(gf) THEN "glacier" ELSE "save"

\* saveFile is called for the file: a new StorageSummary, then the tests
\* that lead to copyToLongTermStorage.
BeginUpload ==
    /\ uPc = "idle"
    /\ uRuns < MaxUploadRuns
    /\ uRuns' = uRuns + 1
    /\ uErrs' = {}
    /\ uN' = 1
    /\ uPc' = IF needsPrimary(uGf) THEN "s3" ELSE afterPrimary(uGf)
    /\ UNCHANGED <<uGf, uBucket, uTemp, uSends, uRemoved>>
    /\ UNCHANGED otherThanUpload

\* One round of the loop of copyToLongTermStorage: doUpload, then the test
\* that ends the loop.
UploadAttempt(dest) ==
    /\ uPc = dest
    /\ \E env \in UploadEnvs :
         \E out \in {doUploadWithBuckets(
                        [gf |-> uGf, bucket |-> uBucket, temp |-> uTemp,
                         errs |-> uErrs, sends |-> uSends], dest, uN, env)} :
            /\ uGf' = out.gf
            /\ uBucket' = out.bucket
            /\ uTemp' = out.temp
            /\ uErrs' = out.errs
            /\ uSends' = out.sends
            /\ IF IsMarked(out.gf, dest) \/ uN = MAX_UPLOAD_ATTEMPTS
               THEN /\ uN' = 1
                    /\ uPc' = IF dest = "s3" THEN afterPrimary(out.gf) ELSE "save"
               ELSE /\ uN' = uN + 1
                    /\ uPc' = uPc
    /\ UNCHANGED <<uRemoved, uRuns>>
    /\ UNCHANGED otherThanUpload

\* saveFile: db.Save, then the deferred cleanupTempFile.
SaveAndCleanup ==
    /\ uPc = "save"
    /\ \E looksSafeToDelete \in BOOLEAN :
         /\ uTemp' = cleanupTempFile(uTemp, uGf, looksSafeToDelete)
         /\ uRemoved' = (uRemoved \/ (uTemp # NoFile /\ uTemp' = NoFile))
    /\ uPc' = "idle"
    /\ UNCHANGED <<uGf, uBucket, uN, uErrs, uSends, uRuns>>
    /\ UNCHANGED otherThanUpload

UploadNext ==
    \/ BeginUpload
    \/ \E dest \in Dests : UploadAttempt(dest)
    \/ SaveAndCleanup

(***************************************************************************)
(*                 S3Upload.Send and its part size (SpecSend)              *)
(*                                                                         *)
(* Sizes are in MiB, rounded down: every size Send compares with is a      *)
(* whole number of MiB, so the comparisons come out as they do on bytes.   *)
(***************************************************************************)

\* The largest file size sent, in MiB.
MaxSizeMiB == 51201

\* s3manager.MinUploadPartSize, in MiB
MinUploadPartSize == 5

\* NewS3Upload: no upload sent yet, chunkSize zero; concurrency 0 stands
\* for the default of the s3manager uploader.
NewS3Upload == [sent |-> FALSE, size |-> 0, chunkSize |-> 0, concurrency |-> 0]

\* Send: uploader.PartSize for a file of the given size.
PartSize(size) ==
    IF size < MinUploadPartSize THEN MinUploadPartSize
    ELSE IF size >= MinUploadPartSize * 100 /\ size < MinUploadPartSize * 1000 THEN 128
    ELSE IF size >= MinUploadPartSize * 1000 /\ size < MinUploadPartSize * 10000 THEN 512
    ELSE 1024

\* Send: uploader.Concurrency for a file of the given size.
Concurrency(size) ==
    IF size < MinUploadPartSize THEN 0
    ELSE IF size >= MinUploadPartSize * 100 /\ size < MinUploadPartSize * 1000 THEN 2
    ELSE 1

\* S3Upload.Send(reader, size), for a body of any size up to MaxSizeMiB.
S3UploadSend ==
    /\ ~s3Upload.sent
    /\ \E size \in 0..MaxSizeMiB :
         s3Upload' = [sent |-> TRUE, size |-> size, chunkSize |-> PartSize(size),
                      concurrency |-> Concurrency(size)]
    /\ UNCHANGED otherThanSend

\* The caller makes a new S3Upload for its next upload.
NextS3Upload ==
    /\ s3Upload.sent
    /\ s3Upload' = NewS3Upload
    /\ UNCHANGED otherThanSend

SendNext ==
    \/ S3UploadSend
    \/ NextS3Upload

(***************************************************************************)
(*     One WorkItem from the store topic to the end of cleanup (Spec)      *)
(*                                                                         *)
(* One store worker and one record worker. The broker hands a message to   *)
(* a worker once per publish or requeue (the workers' touches keep it from *)
(* redelivering a message in flight); the staging DB opens and saves.      *)
(***************************************************************************)

\* Config.StoreWorker.MaxAttempts and Config.RecordWorker.MaxAttempts
StoreMaxAttempts == 2
RecordMaxAttempts == 2

\* The GenericFiles of the object, in the order of db.FileIdentifierBatch.
FileOrder == <<"f1", "f2">>
Files == {FileOrder[i] : i \in DOMAIN FileOrder}

\* The process the workers run in.
Worker == ProcOf("t1")

\* The event types of IntellectualObject.BuildIngestEvents and of
\* GenericFile.BuildIngestEvents.
ObjectEventTypes == {"ingest", "identifier_assignment", "access_assignment"}
FileEventTypes ==
    {"ingest", "identifier_assignment_bag_path", "identifier_assignment_url",
     "fixity_generation_md5", "fixity_generation_sha256", "fixity_check_md5",
     "replication"}

\* The ids the registry gives to the object and to a file it creates.
ObjectId == 5
FileId(f) == IF f = "f1" THEN 11 ELSE 12

\* NewWorkSummary, with the ErrorIsFatal flag the workers set.
NewWorkSummary == [attempt |-> 0, errs |-> {}, fatal |-> FALSE]

\* WorkSummary.ClearErrors
ClearErrors(summary) == [summary EXCEPT !.errs = {}]

\* IngestManifest.HasErrors, IngestManifest.HasFatalErrors: over the
\* WorkSummaries of the manifest.
HasErrors(m) == m.store.errs # {} \/ m.record.errs # {}
HasFatalErrors(m) == m.store.fatal \/ m.record.fatal

\* MarkWorkItemFailed, MarkWorkItemRequeued, MarkWorkItemSucceeded: what they
\* leave in the WorkItem.
MarkFailedItem(item) ==
    [item EXCEPT !.node = "", !.pid = 0, !.status = StatusFailed]
MarkRequeuedItem(item) ==
    [item EXCEPT !.node = "", !.pid = 0, !.status = StatusPending]
MarkSucceededItem(item, nextStage) ==
    [item EXCEPT !.node = "", !.pid = 0, !.stage = nextStage,
                 !.status = IF nextStage = StageCleanup THEN StatusSuccess
                            ELSE StatusPending]

\* itsTimeToGiveUp with > in the place of >=.
itsTimeToGiveUp_OneAttemptMore(hasFatal, hasErrs, attemptNumber, maxAttempts) ==
    hasFatal \/ (hasErrs /\ attemptNumber > maxAttempts)

\* itsTimeToGiveUp of APTStorer.record and of APTRecorder.cleanup
itsTimeToGiveUp(hasFatal, hasErrs, attemptNumber, maxAttempts) ==
    hasFatal \/ (hasErrs /\ attemptNumber >= maxAttempts)

\* APTStorer.record pushing to the record topic whatever the errors.
storerOutcome_PushDespiteErrors(m) ==
    IF itsTimeToGiveUp(HasFatalErrors(m), HasErrors(m), m.store.attempt, StoreMaxAttempts)
    THEN "failed" ELSE "succeeded"

\* APTStorer.record: the branch taken at the end of a store attempt.
storerOutcome(m) ==
    IF itsTimeToGiveUp(HasFatalErrors(m), HasErrors(m), m.store.attempt, StoreMaxAttempts)
    THEN "failed"
    ELSE IF HasErrors(m) THEN "requeued"
    ELSE "succeeded"

\* APTRecorder.cleanup going on to the deletions whatever the errors.
recorderOutcome_CleanupDespiteErrors(m) ==
    IF itsTimeToGiveUp(HasFatalErrors(m), HasErrors(m), m.record.attempt, RecordMaxAttempts)
    THEN "failed" ELSE "succeeded"

\* APTRecorder.cleanup: the branch taken at the end of a record attempt.
recorderOutcome(m) ==
    IF itsTimeToGiveUp(HasFatalErrors(m), HasErrors(m), m.record.attempt, RecordMaxAttempts)
    THEN "failed"
    ELSE IF m.record.errs # {} THEN "requeued"
    ELSE "succeeded"

\* The upload courses and the answers a saveFile of the pipeline meets.
PipePlans ==
    { [okAt |-> 1, bad |-> [reader |-> TRUE, found |-> FALSE, sizeOk |-> FALSE, err |-> TRUE]],
      [okAt |-> 0, bad |-> [reader |-> TRUE, found |-> FALSE, sizeOk |-> FALSE, err |-> TRUE]] }
PipeSaveEnvs == [shaErr : BOOLEAN, getErr : BOOLEAN, s3 : PipePlans, glacier : PipePlans]

\* The prior versions a file of the pipeline may have in the registry.
PipePriors ==
    { NoPrior,
      [exists |-> TRUE, sha256 |-> "digest-a", id |-> 7, uuid |-> "prior-uuid", uriOk |-> TRUE],
      [exists |-> TRUE, sha256 |-> "digest-b", id |-> 7, uuid |-> "prior-uuid", uriOk |-> TRUE],
      [exists |-> TRUE, sha256 |-> "digest-b", id |-> 0, uuid |-> "prior-uuid", uriOk |-> TRUE] }

\* store(): copy the errors of the StorageSummaries into StoreResult, in
\* order, stopping at the first fatal one.
RECURSIVE copyErrors(_, _, _)
copyErrors(result, storageSummaries, i) ==
    IF i > Len(FileOrder) THEN result
    ELSE LET s == storageSummaries[FileOrder[i]]
             withErrs == [result EXCEPT !.errs = @ \cup s.errs]
         IN IF s.fatal THEN [withErrs EXCEPT !.fatal = TRUE]
            ELSE copyErrors(withErrs, storageSummaries, i + 1)

\* IntellectualObject.AllFilesSaved
AllFilesSaved(files) ==
    \A f \in Files : files[f].needsSave => (files[f].storedAt /\ files[f].replicatedAt)

\* IntellectualObject.BuildIngestEvents: the three object events, each with
\* an identifier of its own drawn when it is constructed, unless the object
\* already carries its events.
BuildIngestEvents(obj, gen) ==
    IF obj.events # {} THEN obj
    ELSE [obj EXCEPT !.events = {[type |-> t, gen |-> gen] : t \in ObjectEventTypes}]

\* savePremisEventsForObject: every event of the object is sent; evOk are
\* the event types the registry answers without error.
savePremisEventsForObject(st, obj, evOk) ==
    [st EXCEPT
        !.reg.resent = @ \cup (obj.events \cap st.reg.events),
        !.reg.events = @ \cup {e \in obj.events : e.type \in evOk},
        !.res.errs = @ \cup (IF \E e \in obj.events : e.type \notin evOk
                             THEN {"error adding PremisEvent"} ELSE {})]

\* saveIntellectualObject: st.obj is the in-memory object.
saveIntellectualObject(st, env) ==
    IF env.objErr
    THEN [st EXCEPT !.obj.id = st.reg.objId,
                    !.res.errs = @ \cup {"error saving IntellectualObject"}]
    ELSE savePremisEventsForObject(
             [st EXCEPT !.obj.id = ObjectId, !.reg.objId = ObjectId],
             [st.obj EXCEPT !.id = ObjectId], env.evOk)

\* saveAllPharosData: the partition of the batch.
newFiles_WithoutIdTest(files) ==
    {f \in Files : files[f].needsSave /\ ~files[f].prevExists}

newFiles(files) ==
    {f \in Files : files[f].needsSave /\ ~files[f].prevExists /\ files[f].id = 0}

existingFiles(files) ==
    {f \in Files : files[f].needsSave /\ files[f].prevExists /\ files[f].id > 0}

\* saveAllPharosData calling logMissingId on no file.
missingIdFiles_NotLogged(files) == {}

\* Files logMissingId is called on.
missingIdFiles(files) ==
    {f \in Files : files[f].needsSave /\ files[f].prevExists /\ files[f].id = 0}

\* createGenericFiles: one batch POST of the new files; the files the
\* registry reports as saved get its attributes merged in.
createGenericFiles(st, new, env) ==
    IF new = {} THEN st
    ELSE LET created == IF env.batchErr THEN env.created \cap new ELSE new
         IN [st EXCEPT
               !.reg.posts = @ + 1,
               !.reg.lastPost = new,
               !.reg.created = [f \in Files |-> IF f \in created THEN @[f] + 1 ELSE @[f]],
               !.reg.fileEvents = [f \in Files |->
                    IF f \in created THEN FileEventTypes ELSE @[f]],
               !.files = [f \in Files |->
                    IF f \in created THEN [@[f] EXCEPT !.id = FileId(f)] ELSE @[f]],
               !.res.errs = @ \cup (IF env.batchErr THEN {"error saving batch"} ELSE {})]

\* updateGenericFiles: one save per existing file.
updateGenericFiles(st, existing, env) ==
    [st EXCEPT
        !.reg.fileEvents = [f \in Files |->
             IF f \in existing \ env.updErr THEN FileEventTypes ELSE @[f]],
        !.res.errs = @ \cup (IF existing \cap env.updErr # {}
                             THEN {"error updating file"} ELSE {})]

\* What the registry answers during one saveAllPharosData.
RecordEnvs ==
    { e \in [buildErr : BOOLEAN, objErr : BOOLEAN, evOk : SUBSET ObjectEventTypes,
             batchErr : BOOLEAN, created : SUBSET Files, updErr : SUBSET Files] :
        /\ e.buildErr => (~e.objErr /\ e.evOk = ObjectEventTypes)
        /\ e.objErr => e.evOk = ObjectEventTypes
        /\ (e.buildErr \/ e.objErr \/ e.evOk # ObjectEventTypes) =>
               (~e.batchErr /\ e.updErr = {})
        /\ ~e.batchErr => e.created = Files }

\* saveAllPharosData. st holds the staging DB (dbObj, dbFiles), the
\* registry (reg), RecordResult (res) and the count of event constructions
\* (gen); obj and files are the copies in memory.
saveAllPharosData(st0, env) ==
    LET built == BuildIngestEvents(st0.dbObj, st0.gen + 1)
        st == [st0 EXCEPT !.obj = built, !.files = st0.dbFiles,
                          !.gen = IF built = st0.dbObj THEN @ ELSE @ + 1]
    IN IF env.buildErr
       THEN [st EXCEPT !.res.errs = @ \cup {"cannot build events"}, !.res.fatal = TRUE]
       ELSE
         \* IngestManifest.Object.Id is never assigned: the object is saved
         \* on every attempt.
         LET saved == saveIntellectualObject(st, env)
         IN IF saved.res.errs # {} THEN saved
            ELSE
              LET inDb == [saved EXCEPT !.dbObj = saved.obj]
                  new == newFiles(inDb.files)
                  existing == existingFiles(inDb.files)
                  logged == [inDb EXCEPT !.res.errs = @ \cup
                                (IF missingIdFiles(inDb.files) # {}
                                 THEN {"previous version without Id"} ELSE {})]
                  posted == updateGenericFiles(
                                createGenericFiles(logged, new, env), existing, env)
              IN \* saveGenericFilesInBoltDB, for newFiles and existingFiles
                 [posted EXCEPT !.dbFiles = [f \in Files |->
                     IF f \in new \cup existing THEN posted.files[f] ELSE @[f]]]

\* The ingest stages in their order.
StageRank(stage) ==
    CASE stage = StageStore -> 1
      [] stage = StageRecord -> 2
      [] stage = StageCleanup -> 3

\* APTStorer.HandleMessage
StorerHandleMessage ==
    /\ pc = "idle"
    /\ nsq.store > 0
    /\ nsq' = [nsq EXCEPT !.store = @ - 1]
    /\ IF IsInProgress(workItem, Worker)
       THEN UNCHANGED <<pc, manifest, workItem>>
       ELSE /\ manifest' = [manifest EXCEPT !.store = ClearErrors(@)]
            /\ workItem' = MarkStartedItem(workItem, Worker, StageStore)
            /\ pc' = "store"
    /\ UNCHANGED <<db, pharos, lastOutcome, evGen, registryPrior, bagInStaging, dbInStaging, tarDeleted, cleanupRun, summaries>>
    /\ UNCHANGED otherThanPipe

\* What store() keeps of a StorageSummary once its saveFile has returned.
NoSummary == [done |-> FALSE, errs |-> {}, fatal |-> FALSE]

\* APTStorer.store: a store attempt begins; saveFile is started on every
\* file of the batch.
Store ==
    /\ pc = "store"
    /\ manifest' = [manifest EXCEPT !.store.attempt = @ + 1]
    /\ summaries' = [f \in Files |-> NoSummary]
    /\ pc' = "saving"
    /\ UNCHANGED <<workItem, db, pharos, nsq, lastOutcome, evGen, registryPrior,
                   bagInStaging, dbInStaging, tarDeleted, cleanupRun>>
    /\ UNCHANGED otherThanPipe

\* APTStorer.store: the goroutine that runs saveFile on file f.
StoreFile(f) ==
    /\ pc = "saving"
    /\ ~summaries[f].done
    /\ \E env \in PipeSaveEnvs :
         \E summary \in {saveFile(db.files[f], registryPrior[f], env)} :
            /\ summaries' = [summaries EXCEPT ![f] =
                  [done |-> TRUE, errs |-> summary.errs, fatal |-> summary.fatal]]
            /\ db' = [db EXCEPT !.files[f] = IF summary.saved THEN summary.gf ELSE @]
    /\ UNCHANGED <<workItem, manifest, pharos, nsq, pc, lastOutcome, evGen, registryPrior,
                   bagInStaging, dbInStaging, tarDeleted, cleanupRun>>
    /\ UNCHANGED otherThanPipe

\* APTStorer.store: every saveFile of the batch has returned; the errors of
\* the StorageSummaries are copied and the item goes to the cleanup channel.
StoreBatchDone ==
    /\ pc = "saving"
    /\ \A f \in Files : summaries[f].done
    /\ manifest' = [manifest EXCEPT !.store = copyErrors(@, summaries, 1)]
    /\ summaries' = [f \in Files |-> NoSummary]
    /\ pc' = "storeCleanup"
    /\ UNCHANGED <<workItem, db, pharos, nsq, lastOutcome, evGen, registryPrior,
                   bagInStaging, dbInStaging, tarDeleted, cleanupRun>>
    /\ UNCHANGED otherThanPipe

\* APTStorer.cleanup
StorerCleanup ==
    /\ pc = "storeCleanup"
    /\ bagInStaging' = IF manifest.store.errs = {} /\ AllFilesSaved(db.files)
                       THEN FALSE ELSE bagInStaging
    /\ pc' = "storeRecord"
    /\ UNCHANGED <<workItem, manifest, db, pharos, nsq, lastOutcome, evGen, registryPrior, dbInStaging, tarDeleted, cleanupRun, summaries>>
    /\ UNCHANGED otherThanPipe

\* APTStorer.record
StorerRecord ==
    /\ pc = "storeRecord"
    /\ LET out == storerOutcome(manifest)
       IN /\ workItem' = CASE out = "failed" -> MarkFailedItem(workItem)
                           [] out = "requeued" -> MarkRequeuedItem(workItem)
                           [] out = "succeeded" -> MarkSucceededItem(workItem, StageRecord)
          /\ nsq' = CASE out = "failed" -> nsq
                      [] out = "requeued" -> [nsq EXCEPT !.store = @ + 1]
                      [] out = "succeeded" ->
                           [nsq EXCEPT !.record = @ + 1, !.published = @ + 1]
          /\ lastOutcome' = [stage |-> StageStore, attempt |-> manifest.store.attempt,
                      errs |-> (manifest.store.errs # {}),
                      fatal |-> manifest.store.fatal, result |-> out]
    /\ pc' = "idle"
    /\ UNCHANGED <<manifest, db, pharos, evGen, registryPrior, bagInStaging, dbInStaging, tarDeleted, cleanupRun, summaries>>
    /\ UNCHANGED otherThanPipe

\* APTRecorder.HandleMessage
RecorderHandleMessage ==
    /\ pc = "idle"
    /\ nsq.record > 0
    /\ nsq' = [nsq EXCEPT !.record = @ - 1]
    /\ IF IsInProgress(workItem, Worker)
       THEN UNCHANGED <<pc, manifest, workItem>>
       ELSE /\ manifest' = [manifest EXCEPT !.record = ClearErrors(@)]
            /\ workItem' = MarkStartedItem(workItem, Worker, StageRecord)
            /\ pc' = "record"
    /\ UNCHANGED <<db, pharos, lastOutcome, evGen, registryPrior, bagInStaging, dbInStaging, tarDeleted, cleanupRun, summaries>>
    /\ UNCHANGED otherThanPipe

\* APTRecorder.record: one record attempt.
Record ==
    /\ pc = "record"
    /\ \E env \in RecordEnvs :
         LET started == [manifest.record EXCEPT !.attempt = @ + 1]
             out == saveAllPharosData(
                        [dbObj |-> db.obj, dbFiles |-> db.files, reg |-> pharos,
                         res |-> started, gen |-> evGen,
                         obj |-> db.obj, files |-> db.files], env)
         IN /\ manifest' = [manifest EXCEPT !.record = out.res]
            /\ db' = [obj |-> out.dbObj, files |-> out.dbFiles]
            /\ pharos' = out.reg
            /\ evGen' = out.gen
    /\ pc' = "recordCleanup"
    /\ UNCHANGED <<workItem, nsq, lastOutcome, registryPrior, bagInStaging, dbInStaging, tarDeleted, cleanupRun, summaries>>
    /\ UNCHANGED otherThanPipe

\* What deleteBagFromReceivingBucket can meet. integration: EXCHANGE_TEST_ENV
\* is "integration". deleteOnSuccess: Config.DeleteOnSuccess. openErr:
\* storage.NewBoltDB returns an error and no handle. deleteErr: the delete
\* of the tar from the receiving bucket reports an error.
CleanupEnvs ==
    [integration : BOOLEAN, deleteOnSuccess : BOOLEAN, openErr : BOOLEAN,
     deleteErr : BOOLEAN]

NoCleanupRun ==
    [attempted |-> FALSE, integration |-> FALSE, deleteOnSuccess |-> FALSE,
     opened |-> FALSE, errs |-> {}, stamped |-> FALSE]

\* storage.NewBoltDB on DBPath. The embedded store opens the file at the
\* path for reading and writing and creates it when it is not there; when
\* the open fails there is no handle and the file system is left as it was.
NewBoltDB(dbFileExists, openErr) ==
    [opened |-> ~openErr, fileExists |-> dbFileExists \/ ~openErr]

\* APTRecorder.deleteBagFromReceivingBucket, called when the staging files
\* have been deleted: dbFileExists is whether the file at DBPath is still
\* there, hasObject whether it holds the IntellectualObject.
deleteBagFromReceivingBucket(dbFileExists, hasObject, env) ==
    LET opening == NewBoltDB(dbFileExists, env.openErr)
        objFound == opening.opened /\ dbFileExists /\ hasObject
        deleted == env.deleteOnSuccess /\ ~env.deleteErr
    IN [dbInStaging |-> opening.fileExists,
        tarDeleted |-> deleted,
        run |-> [attempted |-> TRUE,
                 integration |-> env.integration,
                 deleteOnSuccess |-> env.deleteOnSuccess,
                 opened |-> opening.opened,
                 errs |-> IF env.deleteOnSuccess /\ env.deleteErr
                          THEN {"error deleting S3 item"} ELSE {},
                 stamped |-> objFound /\ (~env.deleteOnSuccess \/ ~env.deleteErr)]]

\* APTRecorder.cleanup. On success the tar and, outside integration tests,
\* the staging DB are deleted from staging, deleteBagFromReceivingBucket
\* runs, and the WorkItem is marked succeeded at stage Cleanup.
RecorderCleanup ==
    /\ pc = "recordCleanup"
    /\ LET out == recorderOutcome(manifest)
       IN /\ workItem' = CASE out = "failed" -> MarkFailedItem(workItem)
                           [] out = "requeued" -> MarkRequeuedItem(workItem)
                           [] out = "succeeded" ->
                                MarkSucceededItem(
                                    MarkStartedItem(workItem, Worker, StageCleanup),
                                    StageCleanup)
          /\ nsq' = IF out = "requeued" THEN [nsq EXCEPT !.record = @ + 1] ELSE nsq
          /\ IF out = "succeeded"
             THEN \E env \in CleanupEnvs :
                    LET dbLeft == env.integration /\ dbInStaging
                        bucket == deleteBagFromReceivingBucket(dbLeft, TRUE, env)
                    IN /\ bagInStaging' = FALSE
                       /\ dbInStaging' = bucket.dbInStaging
                       /\ tarDeleted' = bucket.tarDeleted
                       /\ cleanupRun' = bucket.run
             ELSE UNCHANGED <<bagInStaging, dbInStaging, tarDeleted, cleanupRun>>
          /\ lastOutcome' = [stage |-> StageRecord, attempt |-> manifest.record.attempt,
                      errs |-> (manifest.record.errs # {}),
                      fatal |-> manifest.record.fatal, result |-> out]
    /\ pc' = "idle"
    /\ UNCHANGED <<manifest, db, pharos, evGen, registryPrior, summaries>>
    /\ UNCHANGED otherThanPipe

Next ==
    \/ StorerHandleMessage
    \/ Store
    \/ \E f \in Files : StoreFile(f)
    \/ StoreBatchDone
    \/ StorerCleanup
    \/ StorerRecord
    \/ RecorderHandleMessage
    \/ Record
    \/ RecorderCleanup

(***************************************************************************)
(*            The Glacier restore initiator (SpecRestore)                  *)
(*                                                                         *)
(* DPNGlacierRestoreInit on the message of one DPNWorkItem: HandleMessage, *)
(* RequestRestore and Cleanup, message by message. The object store        *)
(* answers HEAD by the state of the object; any call can fail.             *)
(***************************************************************************)

\* How many times the broker delivers the message of the DPNWorkItem.
MaxRestoreDeliveries == 3

\* Config.DPN.DPNGlacierRestoreWorker.MaxAttempts
RestoreMaxAttempts == 1

\* The delay of NSQMessage.Requeue, in minutes.
HOURS_BETWEEN_CHECKS == 3
RequeueAfterCheck == HOURS_BETWEEN_CHECKS * 60
RequeueAfterError == 1

\* A new DPNGlacierRestoreState, as GetRestoreState makes it.
NewRestoreState ==
    [hasItem |-> FALSE, errorMessage |-> FALSE, errorIsFatal |-> FALSE,
     requestAccepted |-> FALSE, isAvailableInS3 |-> FALSE, expiryRecorded |-> FALSE]

\* DPNGlacierRestoreState.ToJson: what of the state reaches DPNWorkItem.State.
ToJson(state) ==
    [requestAccepted |-> state.requestAccepted,
     isAvailableInS3 |-> state.isAvailableInS3,
     expiryRecorded |-> state.expiryRecorded,
     errorMessage |-> state.errorMessage]

\* The DPNWorkItems a message can stand for: waiting, cancelled, completed.
NewDPNWorkItem(status, completed) ==
    [status |-> status, retry |-> TRUE, stage |-> StageRequested, node |-> "", pid |-> 0,
     completed |-> completed, state |-> ToJson(NewRestoreState)]

DPNWorkItems ==
    { NewDPNWorkItem(StatusPending, FALSE),
      NewDPNWorkItem(StatusCancelled, FALSE),
      NewDPNWorkItem(StatusSuccess, TRUE) }

\* DPNWorkItem.IsCompletedOrCancelled
IsCompletedOrCancelled(item) == item.completed \/ item.status = StatusCancelled

\* DPNWorkItem.ClearNodeAndPid
ClearNodeAndPid(item) == [item EXCEPT !.node = "", !.pid = 0]

\* What the object store knows of the object under GlacierKey.
GlacierStates == {"cold", "restoring", "restored"}

\* The answers of S3Head.Head and GetRestoreRequestInfo for an object.
HeadAnswers(glacier) ==
    IF glacier = "cold" THEN {"notRequested", "error"}
    ELSE IF glacier = "restoring" THEN {"conflict", "inProgress", "error"}
    ELSE {"complete", "error"}

\* The answers of S3Restore.Restore.
RestoreAnswers == {"accepted", "error", "unavailable"}

\* GetRestoreState: the DPNWorkItem from the registry, then the DPN bag.
\* fetch tells which of the two look-ups failed, if any.
GetRestoreState(registryItem, fetch) ==
    IF fetch = "noItem"
    THEN [state |-> [NewRestoreState EXCEPT !.errorMessage = TRUE],
          item |-> registryItem]
    ELSE [state |-> [NewRestoreState EXCEPT !.hasItem = TRUE,
                                            !.errorMessage = (fetch = "noBag")],
          item |-> SetNodeAndPid(registryItem, Worker)]

\* SaveDPNWorkItem: the item handed to PharosClient.DPNWorkItemSave, and
\* the state after the call.
SaveDPNWorkItem(state, item, saveOk) ==
    [item |-> [item EXCEPT !.state = ToJson(state), !.retry = ~state.errorIsFatal],
     state |-> IF ~saveOk /\ ~state.errorMessage
               THEN [state EXCEPT !.errorMessage = TRUE]
               ELSE state]

\* RestoreRequestNeeded answering a restore request for every object that
\* is not yet in S3, whatever HEAD says of a request in progress.
RestoreRequestNeeded_IgnoringProgress(state, head) ==
    IF head = "complete"
    THEN [state |-> [state EXCEPT !.requestAccepted = TRUE, !.isAvailableInS3 = TRUE,
                                  !.expiryRecorded = TRUE],
          needed |-> FALSE, err |-> FALSE]
    ELSE [state |-> state, needed |-> TRUE, err |-> (head = "error")]

\* RestoreRequestNeeded: the state after the HEAD request, whether a restore
\* request is needed, and whether an error is returned.
RestoreRequestNeeded(state, head) ==
    IF head = "conflict"
    THEN [state |-> [state EXCEPT !.requestAccepted = TRUE],
          needed |-> FALSE, err |-> FALSE]
    ELSE IF head = "inProgress"
    THEN [state |-> [state EXCEPT !.requestAccepted = TRUE],
          needed |-> FALSE, err |-> FALSE]
    ELSE IF head = "complete"
    THEN [state |-> [state EXCEPT !.requestAccepted = TRUE, !.isAvailableInS3 = TRUE,
                                  !.expiryRecorded = TRUE],
          needed |-> FALSE, err |-> FALSE]
    ELSE [state |-> state, needed |-> TRUE, err |-> (head = "error")]

\* InitializeRetrieval: the state after the restore request.
InitializeRetrieval(state, answer) ==
    [state EXCEPT !.errorMessage = (answer # "accepted"),
                  !.requestAccepted = (answer = "accepted"),
                  !.expiryRecorded = TRUE,
                  !.isAvailableInS3 = FALSE,
                  !.errorIsFatal = IF answer = "unavailable" THEN FALSE ELSE @]

\* The broker message of the DPNWorkItem.
Requeue(msg, delay) == [msg EXCEPT !.status = "requeued", !.delay = delay]
Finish(msg) == [msg EXCEPT !.status = "finished", !.delay = 0]

\* FinishWithError: the item handed to the registry, the state, the message.
FinishWithError(state, item, msg, saveOk) ==
    LET cleared == ClearNodeAndPid(item)
        giveUp == state.errorIsFatal \/ msg.attempts > RestoreMaxAttempts
        decided == IF giveUp
                   THEN [cleared EXCEPT !.status = StatusFailed, !.retry = FALSE]
                   ELSE [cleared EXCEPT !.retry = TRUE]
        saving == SaveDPNWorkItem(state, decided, saveOk)
    IN [item |-> saving.item,
        state |-> saving.state,
        msg |-> IF giveUp THEN Finish(msg) ELSE Requeue(msg, RequeueAfterError),
        enqueued |-> 0]

\* FinishWithSuccess, with SendToDownloadQueue.
FinishWithSuccess(state, item, msg, saveOk, enqueueOk) ==
    LET cleared == ClearNodeAndPid(item)
    IN IF state.isAvailableInS3
       THEN LET saving == SaveDPNWorkItem(
                              state, [cleared EXCEPT !.stage = StageAvailableInS3], saveOk)
                failed == SaveDPNWorkItem([saving.state EXCEPT !.errorMessage = TRUE],
                                          saving.item, saveOk)
            IN [item |-> IF enqueueOk THEN saving.item ELSE failed.item,
                state |-> IF enqueueOk THEN saving.state ELSE failed.state,
                msg |-> Finish(msg),
                enqueued |-> IF enqueueOk THEN 1 ELSE 0]
       ELSE LET saving == SaveDPNWorkItem(state, [cleared EXCEPT !.retry = TRUE], saveOk)
            IN [item |-> saving.item,
                state |-> saving.state,
                msg |-> Requeue(msg, RequeueAfterCheck),
                enqueued |-> 0]

\* What is known of the running handling of a message.
NoHandling ==
    [fetched |-> NewDPNWorkItem(StatusPending, FALSE), head |-> "none",
     restoreRequested |-> FALSE, finished |-> "none", enqueued |-> 0,
     panicked |-> FALSE]

\* HandleMessage: GetRestoreState, Status = Started, SaveDPNWorkItem, then
\* the hand-over to RequestChannel or CleanupChannel. Without a DPNWorkItem
\* the assignment to state.DPNWorkItem.Status panics: the worker is gone
\* and the broker hands the message out again after its timeout.
RestoreInitHandleMessage ==
    /\ rPc = "idle"
    /\ rMsg.status \in {"queued", "requeued"}
    /\ rMsg.attempts < MaxRestoreDeliveries
    /\ \E fetch \in {"ok", "noItem", "noBag"}, saveOk \in BOOLEAN :
         LET got == GetRestoreState(rItem, fetch)
             delivered == [rMsg EXCEPT !.attempts = @ + 1, !.status = "inflight",
                                       !.delay = 0]
         IN IF ~got.state.hasItem
            THEN /\ rMsg' = [delivered EXCEPT !.status = "queued"]
                 /\ rHist' = [NoHandling EXCEPT !.panicked = TRUE]
                 /\ UNCHANGED <<rItem, rState, rMine, rPc, rSaved>>
            ELSE LET started == [got.item EXCEPT !.status = StatusStarted]
                     saving == SaveDPNWorkItem(got.state, started, saveOk)
                 IN /\ rMsg' = delivered
                    /\ rState' = saving.state
                    /\ rMine' = saving.item
                    /\ rSaved' = saving.item
                    /\ rItem' = IF saveOk THEN saving.item ELSE rItem
                    /\ rHist' = [NoHandling EXCEPT !.fetched = rItem]
                    /\ rPc' = IF saving.state.errorMessage THEN "cleanup"
                              ELSE IF IsCompletedOrCancelled(saving.item) THEN "cleanup"
                              ELSE "request"
    /\ UNCHANGED <<rGlacier, rDownload>>
    /\ UNCHANGED otherThanRestore

\* RequestRestore: RestoreRequestNeeded, then InitializeRetrieval if needed.
RequestRestore ==
    /\ rPc = "request"
    /\ \E head \in HeadAnswers(rGlacier), answer \in RestoreAnswers :
         LET asked == RestoreRequestNeeded(rState, head)
             request == ~asked.err /\ asked.needed
         IN /\ rState' = IF asked.err THEN [asked.state EXCEPT !.errorMessage = TRUE]
                         ELSE IF asked.needed THEN InitializeRetrieval(asked.state, answer)
                         ELSE asked.state
            /\ rGlacier' = IF request /\ answer = "accepted" /\ rGlacier = "cold"
                           THEN "restoring" ELSE rGlacier
            /\ rHist' = [rHist EXCEPT !.head = head, !.restoreRequested = request]
    /\ rPc' = "cleanup"
    /\ UNCHANGED <<rItem, rMine, rMsg, rDownload, rSaved>>
    /\ UNCHANGED otherThanRestore

\* Cleanup: FinishWithError or FinishWithSuccess.
RestoreInitCleanup ==
    /\ rPc = "cleanup"
    /\ \E saveOk \in BOOLEAN, enqueueOk \in BOOLEAN :
         LET withError == rState.errorMessage
             done == IF withError THEN FinishWithError(rState, rMine, rMsg, saveOk)
                     ELSE FinishWithSuccess(rState, rMine, rMsg, saveOk, enqueueOk)
         IN /\ rMine' = done.item
            /\ rSaved' = done.item
            /\ rItem' = IF saveOk THEN done.item ELSE rItem
            /\ rState' = done.state
            /\ rMsg' = done.msg
            /\ rDownload' = rDownload + done.enqueued
            /\ rHist' = [rHist EXCEPT
                           !.finished = IF withError THEN "error" ELSE "success",
                           !.enqueued = done.enqueued]
    /\ rPc' = "idle"
    /\ UNCHANGED rGlacier
    /\ UNCHANGED otherThanRestore

\* Glacier finishes the retrieval it was asked for.
GlacierRestores ==
    /\ rGlacier = "restoring"
    /\ rGlacier' = "restored"
    /\ UNCHANGED <<rItem, rState, rMine, rPc, rMsg, rHist, rDownload, rSaved>>
    /\ UNCHANGED otherThanRestore

RestoreNext ==
    \/ RestoreInitHandleMessage
    \/ RequestRestore
    \/ RestoreInitCleanup
    \/ GlacierRestores

(***************************************************************************)
(*          WorkItem.ShouldTryIngest on one WorkItem (SpecDecide)          *)
(*                                                                         *)
(* The WorkItem is any record the registry can hold for a bag: every       *)
(* action, stage and status of the constants package, retry set or not.    *)
(***************************************************************************)

\* WorkItem.HasBeenStored
HasBeenStored(item) ==
    IF item.action = ActionIngest
    THEN \/ item.stage = StageRecord
         \/ item.stage = StageCleanup
         \/ item.stage = StageResolve
         \/ (item.stage = StageStore /\ item.status = StatusPending)
    ELSE TRUE

\* WorkItem.IsStoring
IsStoring(item) ==
    /\ item.action = ActionIngest
    /\ item.stage = StageStore
    /\ item.status = StatusStarted

\* WorkItem.ShouldTryIngest
ShouldTryIngest(item) == ~HasBeenStored(item) /\ ~IsStoring(item) /\ item.retry

\* The WorkItems of the registry, by the fields ShouldTryIngest reads.
WorkItems == [action : ActionTypes, stage : StageTypes, status : StatusTypes, retry : BOOLEAN]

NotDecided == [decided |-> FALSE, answer |-> FALSE]

\* The caller asks whether to try to ingest the item.
DecideIngest ==
    /\ ~qTry.decided
    /\ qTry' = [decided |-> TRUE, answer |-> ShouldTryIngest(qItem)]
    /\ UNCHANGED qItem
    /\ UNCHANGED otherThanDecide

DecideNext == DecideIngest

(***************************************************************************)
(*        The bucket reader and its WorkItem cache (SpecReader)            *)
(*                                                                         *)
(* A partner uploads tar files to a receiving bucket; each run of the      *)
(* bucket reader lists the bucket and makes sure every object has a        *)
(* WorkItem. The lists and look-ups of APTBucketReaderStats are those of   *)
(* the stats package; the run around them follows section 4.1.             *)
(***************************************************************************)

\* How many runs of the bucket reader, how many uploads of the partner.
MaxReaderRuns == 3
MaxUploads == 2

TarNames == {"a.tar", "b.tar"}
ETags == {"etag-1", "etag-2"}
TarSizes == {100, 200}

\* What a listing of the bucket tells of an object.
S3Objects == [name : TarNames, etag : ETags, size : TarSizes]

\* No WorkItem: the nil of the look-ups.
NilWorkItem == [id |-> 0, name |-> "", etag |-> "", size |-> 0, recent |-> FALSE]

\* NewAPTBucketReaderStats
NewAPTBucketReaderStats == [WorkItemsCached |-> <<>>, WorkItemsCreated |-> <<>>]

\* findWorkItemByNameAndEtag: the first item of the list with the name and
\* the etag, or nil.
findWorkItemByNameAndEtag(workItemList, name, etag) ==
    LET matching == {i \in DOMAIN workItemList :
                        workItemList[i].name = name /\ workItemList[i].etag = etag}
    IN IF matching = {} THEN NilWorkItem
       ELSE workItemList[CHOOSE i \in matching : \A j \in matching : i <= j]

\* WorkItemsCacheFindByNameAndEtag and WorkItemsCreatedFindByNameAndEtag
WorkItemsCacheFindByNameAndEtag(stats, name, etag) ==
    findWorkItemByNameAndEtag(stats.WorkItemsCached, name, etag)

WorkItemsCreatedFindByNameAndEtag(stats, name, etag) ==
    findWorkItemByNameAndEtag(stats.WorkItemsCreated, name, etag)

\* AddToWorkItemsCached, AddToWorkItemsCreated
AddToWorkItemsCached(stats, item) ==
    [stats EXCEPT !.WorkItemsCached = Append(@, item)]

AddToWorkItemsCreated(stats, item) ==
    [stats EXCEPT !.WorkItemsCreated = Append(@, item)]

\* The items of a set in the order of their ids.
RECURSIVE InIdOrder(_)
InIdOrder(items) ==
    IF items = {} THEN <<>>
    ELSE LET lowest == CHOOSE x \in items : \A y \in items : x.id <= y.id
         IN <<lowest>> \o InIdOrder(items \ {lowest})

\* The cache of recent WorkItems the run starts with.
RECURSIVE cacheWorkItems(_, _)
cacheWorkItems(stats, recentItems) ==
    IF Len(recentItems) = 0 THEN stats
    ELSE cacheWorkItems(AddToWorkItemsCached(stats, Head(recentItems)), Tail(recentItems))

\* The registry asked for the WorkItem of an upload that is in no list of
\* the stats, answering that no WorkItem matches.
registryFind_FindingNothing(registry, s3Object) == NilWorkItem

\* The registry asked for the WorkItem with the name, etag and size.
registryFind(registry, s3Object) ==
    LET matching == {w \in registry : /\ w.name = s3Object.name
                                      /\ w.etag = s3Object.etag
                                      /\ w.size = s3Object.size}
    IN IF matching = {} THEN NilWorkItem
       ELSE CHOOSE w \in matching : \A v \in matching : w.id <= v.id

\* The WorkItem the run has for an object of the listing, nil when it has
\* to create one.
findWorkItem(stats, registry, s3Object) ==
    LET inCache == WorkItemsCacheFindByNameAndEtag(stats, s3Object.name, s3Object.etag)
        inCreated == WorkItemsCreatedFindByNameAndEtag(stats, s3Object.name, s3Object.etag)
    IN IF inCache # NilWorkItem THEN inCache
       ELSE IF inCreated # NilWorkItem THEN inCreated
       ELSE registryFind(registry, s3Object)

\* The WorkItem created for an object: action Ingest, stage Receive, status
\* Pending, with the id the registry gives it.
createWorkItem(registry, s3Object) ==
    [id |-> Cardinality(registry) + 1, name |-> s3Object.name, etag |-> s3Object.etag,
     size |-> s3Object.size, recent |-> TRUE]

\* The partner uploads a tar file, replacing the object of the same key.
PartnerUploads ==
    /\ bPc = "idle"
    /\ bUploads < MaxUploads
    /\ \E s3Object \in S3Objects :
         /\ s3Object \notin bBucket
         /\ bBucket' = {o \in bBucket : o.name # s3Object.name} \cup {s3Object}
    /\ bUploads' = bUploads + 1
    /\ UNCHANGED <<bRegistry, bStats, bTodo, bPc, bPrev, bRuns>>
    /\ UNCHANGED otherThanReader

\* A run starts: new stats, the recent WorkItems cached, the bucket listed.
ReaderStarts ==
    /\ bPc = "idle"
    /\ bRuns < MaxReaderRuns
    /\ bStats' = cacheWorkItems(NewAPTBucketReaderStats,
                                InIdOrder({w \in bRegistry : w.recent}))
    /\ bTodo' = bBucket
    /\ bPc' = "running"
    /\ bRuns' = bRuns + 1
    /\ UNCHANGED <<bBucket, bRegistry, bPrev, bUploads>>
    /\ UNCHANGED otherThanReader

\* The run handles one object of the listing.
ReaderProcesses ==
    /\ bPc = "running"
    /\ \E s3Object \in bTodo :
         /\ bTodo' = bTodo \ {s3Object}
         /\ IF findWorkItem(bStats, bRegistry, s3Object) # NilWorkItem
            THEN UNCHANGED <<bRegistry, bStats>>
            ELSE /\ bRegistry' = bRegistry \cup {createWorkItem(bRegistry, s3Object)}
                 /\ bStats' = AddToWorkItemsCreated(bStats,
                                                    createWorkItem(bRegistry, s3Object))
    /\ UNCHANGED <<bBucket, bPc, bPrev, bRuns, bUploads>>
    /\ UNCHANGED otherThanReader

\* The run ends when the listing is exhausted.
ReaderEnds ==
    /\ bPc = "running"
    /\ bTodo = {}
    /\ bPc' = "idle"
    /\ bPrev' = [listed |-> TRUE, bucket |-> bBucket]
    /\ UNCHANGED <<bBucket, bRegistry, bStats, bTodo, bRuns, bUploads>>
    /\ UNCHANGED otherThanReader

ReaderNext ==
    \/ PartnerUploads
    \/ ReaderStarts
    \/ ReaderProcesses
    \/ ReaderEnds

(***************************************************************************)
(*            BagValidator.Validate on one bag (SpecValidate)              *)
(*                                                                         *)
(* The bag is what virtualBag.Read returns: the GenericFiles with their    *)
(* manifest and computed digests, the tags, and the errors of the parse.   *)
(* Tag values are sequences of characters, so that lower-casing and        *)
(* trimming are computed.                                                  *)
(***************************************************************************)

\* config.REQUIRED, config.OPTIONAL, config.FORBIDDEN
REQUIRED == "REQUIRED"
OPTIONAL == "OPTIONAL"
FORBIDDEN == "FORBIDDEN"

\* strings.ToLower over the characters of the tag values.
LowerChar(c) == IF c = "A" THEN "a" ELSE IF c = "B" THEN "b" ELSE c
ToLower(str) == [i \in DOMAIN str |-> LowerChar(str[i])]

\* strings.TrimSpace
RECURSIVE TrimLeft(_)
TrimLeft(str) ==
    IF Len(str) > 0 /\ Head(str) = " " THEN TrimLeft(Tail(str)) ELSE str

RECURSIVE TrimRight(_)
TrimRight(str) ==
    IF Len(str) > 0 /\ str[Len(str)] = " "
    THEN TrimRight(SubSeq(str, 1, Len(str) - 1))
    ELSE str

TrimSpace(str) == TrimRight(TrimLeft(str))

\* IntellectualObject.FindGenericFile: the index of the file, 0 for nil.
FindGenericFile(obj, gfPath) ==
    IF \E i \in DOMAIN obj.GenericFiles : obj.GenericFiles[i].path = gfPath
    THEN CHOOSE i \in DOMAIN obj.GenericFiles : obj.GenericFiles[i].path = gfPath
    ELSE 0

\* IntellectualObject.FindTag: the tags with the name, in their order.
RECURSIVE FindTagIn(_, _)
FindTagIn(tagList, tagName) ==
    IF Len(tagList) = 0 THEN <<>>
    ELSE IF Head(tagList).label = tagName
    THEN <<Head(tagList)>> \o FindTagIn(Tail(tagList), tagName)
    ELSE FindTagIn(Tail(tagList), tagName)

FindTag(obj, tagName) == FindTagIn(obj.Tags, tagName)

\* verifyFileSpecs, for the file spec of the config.
verifyFileSpecs(errors, obj, config) ==
    LET gfIndex == FindGenericFile(obj, config.fileSpec.path)
    IN IF gfIndex = 0 /\ config.fileSpec.presence = REQUIRED
       THEN Append(errors, [kind |-> "Required file is missing", path |-> config.fileSpec.path])
       ELSE IF gfIndex # 0 /\ config.fileSpec.presence = FORBIDDEN
       THEN Append(errors, [kind |-> "Bag contains forbidden file", path |-> config.fileSpec.path])
       ELSE errors

\* checkRequiredTag
checkRequiredTag(errors, tagName, tags, tagSpec) ==
    IF tags = <<>>
    THEN Append(errors, [kind |-> "Required tag is missing", tag |-> tagName])
    ELSE IF ~tagSpec.emptyOK /\ \A i \in DOMAIN tags : tags[i].value = <<>>
    THEN Append(errors, [kind |-> "Value for tag is missing", tag |-> tagName])
    ELSE errors

\* checkAllowedTagValue
checkAllowedTagValue(errors, tagName, tags, tagSpec) ==
    IF \E a \in DOMAIN tagSpec.allowedValues, t \in DOMAIN tags :
           TrimSpace(ToLower(tagSpec.allowedValues[a])) = TrimSpace(ToLower(tags[t].value))
    THEN errors
    ELSE Append(errors, [kind |-> "Tag has illegal value", tag |-> tagName,
                         value |-> TrimSpace(ToLower(tags[Len(tags)].value))])

\* verifyTagSpecs, for the tag spec of the config. With presence FORBIDDEN
\* the error names tags[0].SourceFile: without a tag of that name the index
\* is out of range and the goroutine panics.
verifyTagSpecs(errors, obj, config) ==
    LET tagName == config.tagSpec.name
        tags == FindTag(obj, tagName)
        required == IF config.tagSpec.presence = REQUIRED
                    THEN checkRequiredTag(errors, tagName, tags, config.tagSpec)
                    ELSE errors
    IN IF config.tagSpec.presence = FORBIDDEN
       THEN IF tags = <<>>
            THEN [errors |-> errors, panic |-> TRUE]
            ELSE [errors |-> Append(errors, [kind |-> "Forbidden tag found", tag |-> tagName,
                                             file |-> tags[1].sourceFile]),
                  panic |-> FALSE]
       ELSE IF tags # <<>> /\ Len(config.tagSpec.allowedValues) > 0
       THEN [errors |-> checkAllowedTagValue(required, tagName, tags, config.tagSpec),
             panic |-> FALSE]
       ELSE [errors |-> required, panic |-> FALSE]

\* verifyChecksums: the tests of the two digests of a GenericFile.
md5Mismatch(gf) == gf.manifestMd5 # "" /\ gf.manifestMd5 # gf.md5
sha256Mismatch(gf) == gf.manifestSha256 # "" /\ gf.manifestSha256 # gf.sha256

\* verifyChecksums on one GenericFile without the test of the Md5 digest.
verifyChecksumsOfFile_AcceptingMd5(gf) ==
    [errors |-> IF sha256Mismatch(gf)
                THEN <<[kind |-> "Sha256 digest", path |-> gf.path,
                        manifest |-> gf.manifestSha256, digest |-> gf.sha256]>>
                ELSE <<>>,
     gf |-> [gf EXCEPT !.md5VerifiedAt = TRUE,
                       !.sha256VerifiedAt = IF sha256Mismatch(gf) THEN @ ELSE TRUE]]

\* verifyChecksums on one GenericFile: the errors it adds and the file after.
verifyChecksumsOfFile(gf) ==
    [errors |-> (IF md5Mismatch(gf)
                 THEN <<[kind |-> "Md5 digest", path |-> gf.path,
                         manifest |-> gf.manifestMd5, digest |-> gf.md5]>>
                 ELSE <<>>)
                \o (IF sha256Mismatch(gf)
                    THEN <<[kind |-> "Sha256 digest", path |-> gf.path,
                            manifest |-> gf.manifestSha256, digest |-> gf.sha256]>>
                    ELSE <<>>),
     gf |-> [gf EXCEPT !.md5VerifiedAt = IF md5Mismatch(gf) THEN @ ELSE TRUE,
                       !.sha256VerifiedAt = IF sha256Mismatch(gf) THEN @ ELSE TRUE]]

\* verifyChecksums: the loop over IntellectualObject.GenericFiles, from
\* file number n on.
RECURSIVE verifyChecksums(_, _, _)
verifyChecksums(errors, genericFiles, n) ==
    IF n > Len(genericFiles) THEN [errors |-> errors, GenericFiles |-> genericFiles]
    ELSE verifyChecksums(errors \o verifyChecksumsOfFile(genericFiles[n]).errors,
                         [genericFiles EXCEPT ![n] = verifyChecksumsOfFile(genericFiles[n]).gf],
                         n + 1)

\* ValidationResult.HasErrors
ValidationResultHasErrors(result) ==
    \/ result.ParseSummary.errors # <<>>
    \/ result.ValidationSummary.errors # <<>>
    \/ result.IntellectualObject.IngestErrorMessage # <<>>

\* No ValidationResult yet.
NoValidationResult ==
    [outcome |-> "none",
     ParseSummary |-> [errors |-> <<>>],
     ValidationSummary |-> [errors |-> <<>>, started |-> FALSE, finished |-> FALSE],
     IntellectualObject |-> [GenericFiles |-> <<>>, Tags |-> <<>>, IngestErrorMessage |-> <<>>]]

\* BagValidator.Validate. IngestErrorMessage is the list of the errors
\* AllErrorsAsString joins.
Validate(bag, config) ==
    LET read == [NoValidationResult EXCEPT
                    !.ParseSummary.errors = bag.parseErrors,
                    !.IntellectualObject.GenericFiles = bag.GenericFiles,
                    !.IntellectualObject.Tags = bag.Tags]
        obj == read.IntellectualObject
        afterFiles == verifyFileSpecs(bag.parseErrors, obj, config)
        afterTags == verifyTagSpecs(afterFiles, obj, config)
        afterSums == verifyChecksums(afterTags.errors, obj.GenericFiles, 1)
    IN IF bag.parseErrors # <<>>
       THEN [read EXCEPT !.outcome = "returned",
                         !.IntellectualObject.IngestErrorMessage = bag.parseErrors]
       ELSE IF afterTags.panic
       THEN [read EXCEPT !.outcome = "panic",
                         !.ValidationSummary.started = TRUE,
                         !.ValidationSummary.errors = afterTags.errors]
       ELSE [read EXCEPT !.outcome = "returned",
                         !.ValidationSummary.started = TRUE,
                         !.ValidationSummary.finished = TRUE,
                         !.ValidationSummary.errors = afterSums.errors,
                         !.IntellectualObject.GenericFiles = afterSums.GenericFiles,
                         !.IntellectualObject.IngestErrorMessage = afterSums.errors]

\* The bags and the configs Validate is run on.
NewValidatedFile(path, manifestMd5, manifestSha256) ==
    [path |-> path, manifestMd5 |-> manifestMd5, md5 |-> "md5-x",
     manifestSha256 |-> manifestSha256, sha256 |-> "sha-x",
     md5VerifiedAt |-> FALSE, sha256VerifiedAt |-> FALSE]

ManifestMd5s == {"", "md5-x", "md5-y"}
ManifestSha256s == {"", "sha-x", "sha-y"}

BagFiles ==
    {<<NewValidatedFile("data/f1", m, s)>> : m \in ManifestMd5s, s \in ManifestSha256s}
    \cup {<<NewValidatedFile("data/f1", m, s), NewValidatedFile("aptrust-info.txt", "", t)>> :
             m \in ManifestMd5s, s \in ManifestSha256s, t \in ManifestSha256s}

TagValues == {<<>>, <<"a", "b">>, <<" ", "A", "b", " ">>, <<"b", "b">>}

BagTags ==
    {<<>>} \cup {<<[label |-> "Access", value |-> v, sourceFile |-> "aptrust-info.txt"]>> :
                    v \in TagValues}

Bags == [GenericFiles : BagFiles, Tags : BagTags,
         parseErrors : {<<>>, <<[kind |-> "Error reading tar file"]>>}]

FileSpecs == [path : {"aptrust-info.txt"}, presence : {REQUIRED, OPTIONAL, FORBIDDEN}]

TagSpecs == [name : {"Access"}, presence : {REQUIRED, OPTIONAL, FORBIDDEN},
             emptyOK : BOOLEAN, allowedValues : {<<>>, <<<<"A", "b">>, <<"c">>>>}]

BagValidationConfigs == [fileSpec : FileSpecs, tagSpec : TagSpecs]

\* The validator validates the bag.
ValidateBag ==
    /\ vResult.outcome = "none"
    /\ vResult' = Validate(vBag, vConfig)
    /\ UNCHANGED <<vBag, vConfig>>
    /\ UNCHANGED otherThanValidate

ValidateNext == ValidateBag

(***************************************************************************)
(*               tarfile.Reader.Untar on one tar (SpecUntar)               *)
(*                                                                         *)
(* Paths and header names are sequences of tokens, "/" being one token,    *)
(* so that strings.Replace, path.Base and strings.HasSuffix are computed.  *)
(* The reader runs on a system other than Windows.                         *)
(***************************************************************************)

\* strings.Replace(headerName, "/", "", 1)
RECURSIVE ReplaceFirstSlash(_)
ReplaceFirstSlash(tokens) ==
    IF Len(tokens) = 0 THEN tokens
    ELSE IF Head(tokens) = "/" THEN Tail(tokens)
    ELSE <<Head(tokens)>> \o ReplaceFirstSlash(Tail(tokens))

\* path.Base: trailing slashes dropped, then what follows the last slash.
RECURSIVE StripTrailingSlashes(_)
StripTrailingSlashes(tokens) ==
    IF Len(tokens) > 0 /\ tokens[Len(tokens)] = "/"
    THEN StripTrailingSlashes(SubSeq(tokens, 1, Len(tokens) - 1))
    ELSE tokens

RECURSIVE AfterLastSlash(_)
AfterLastSlash(tokens) ==
    IF \E i \in DOMAIN tokens : tokens[i] = "/"
    THEN AfterLastSlash(Tail(tokens))
    ELSE tokens

PathBase(tokens) ==
    IF Len(tokens) = 0 THEN <<".">>
    ELSE IF StripTrailingSlashes(tokens) = <<>> THEN <<"/">>
    ELSE AfterLastSlash(StripTrailingSlashes(tokens))

\* strings.HasSuffix(s, ".tar") and s[0 : len(s)-4]
HasTarSuffix(tokens) == Len(tokens) > 0 /\ tokens[Len(tokens)] = ".tar"
WithoutTarSuffix(tokens) ==
    IF HasTarSuffix(tokens) THEN SubSeq(tokens, 1, Len(tokens) - 1) ELSE tokens

\* GetTopLevelDir: the directory and whether an error is returned.
GetTopLevelDir(headerName, tarFilePath) ==
    LET topLevelDir == ReplaceFirstSlash(headerName)
        expectedDir == WithoutTarSuffix(PathBase(topLevelDir))
    IN [topLevelDir |-> topLevelDir, err |-> topLevelDir # expectedDir]

\* GetFileName: strings.SplitN(headerName, "/", 2) has fewer than two parts.
GetFileNameFails(headerName) == ~\E i \in DOMAIN headerName : headerName[i] = "/"

\* WorkSummary.AddError, Start, Finish, HasErrors on Manifest.Untar
AddUntarError(summary, message) == [summary EXCEPT !.Errors = Append(@, message)]
StartSummary(summary) == [summary EXCEPT !.Started = TRUE]
FinishSummary(summary) == [summary EXCEPT !.Finished = TRUE]
SummaryHasErrors(summary) == Len(summary.Errors) > 0

\* RecordStartOfWork
RecordStartOfWork(summary) ==
    StartSummary([summary EXCEPT !.Attempted = TRUE,
                                 !.AttemptNumber = @ + 1,
                                 !.Finished = FALSE])

\* The tar file paths a manifest can carry, and what the disk has there.
NoPath == <<>>
TarFilePaths ==
    [empty |-> NoPath,
     relative |-> <<"staging", "/", "my_bag", ".tar">>,
     missing |-> <<"/", "nowhere", "/", "my_bag", ".tar">>,
     directory |-> <<"/", "staging">>,
     file |-> <<"/", "staging", "/", "my_bag", ".tar">>]

IsAbsPath(tokens) == Len(tokens) > 0 /\ Head(tokens) = "/"
PathExists(kind) == kind \in {"relative", "directory", "file"}

\* ManifestInfoIsValid: the Untar summary after the call, and the value
\* returned.
ManifestInfoIsValid(ingestManifest) ==
    LET obj == ingestManifest.Object
        e1 == IF obj.Identifier = "" THEN <<"IntellectualObject has no Identifier.">> ELSE <<>>
        e2 == IF obj.BagName = "" THEN <<"IntellectualObject has no BagName.">> ELSE <<>>
        e3 == IF obj.Institution = ""
              THEN <<"IntellectualObject has no Institution.">> ELSE <<>>
        e4 == IF obj.IngestTarFilePath = NoPath
              THEN <<"IntellectualObject is missing IngestTarFilePath.">>
              ELSE IF ~IsAbsPath(obj.IngestTarFilePath)
              THEN <<"IntellectualObject has a relative or incorrect IngestTarFilePath.">>
              ELSE <<>>
        e5 == IF ~PathExists(obj.tarFileKind) THEN <<"IngestTarFilePath does not exist.">>
              ELSE IF obj.tarFileKind = "directory"
              THEN <<"IngestTarFilePath is a directory.">>
              ELSE <<>>
        checked == [ingestManifest.Untar EXCEPT !.Errors = @ \o e1 \o e2 \o e3 \o e4 \o e5]
    IN IF ~ingestManifest.hasObject
       THEN [summary |-> AddUntarError(ingestManifest.Untar,
                                       "IntellectualObject is missing from manifest."),
             valid |-> FALSE]
       ELSE [summary |-> checked, valid |-> SummaryHasErrors(checked)]

\* What Untar has done so far.
NoUntarRun ==
    [called |-> FALSE, valid |-> FALSE, infoErrors |-> 0, opened |-> FALSE,
     headersRead |-> 0, extracted |-> <<>>, ignored |-> <<>>]

\* Untar: the loop over the headers of the archive, from entry n on. st
\* holds the Untar summary, Object.IngestUntarredPath and the run.
RECURSIVE untarEntries(_, _, _)
untarEntries(st, archive, n) ==
    IF n > Len(archive.entries)
    THEN [st EXCEPT !.summary = FinishSummary(@)]
    ELSE IF archive.corruptAt = n
    THEN [st EXCEPT !.summary = FinishSummary(
                        AddUntarError(@, "Error reading tar file header"))]
    ELSE
      LET header == archive.entries[n]
          readOne == [st EXCEPT !.run.headersRead = @ + 1]
          top == GetTopLevelDir(header.name, st.tarFilePath)
          checksTop == header.type = "dir" /\ st.untarredPath = NoPath
          pathSet == IF checksTop
                     THEN [readOne EXCEPT !.untarredPath = top.topLevelDir]
                     ELSE readOne
      IN IF checksTop /\ top.err
         THEN [readOne EXCEPT !.summary = FinishSummary(
                                  AddUntarError(@, "Bag should untar to a folder named"))]
         ELSE IF archive.mkdirFailsAt = n
         THEN [pathSet EXCEPT !.summary = AddUntarError(@, "Could not create destination file")]
         ELSE IF header.type = "reg"
         THEN IF GetFileNameFails(header.name)
              THEN [pathSet EXCEPT !.summary = FinishSummary(
                                       AddUntarError(@, "should be in format dir/filename"))]
              ELSE untarEntries([pathSet EXCEPT !.run.extracted = Append(@, header.name)],
                                archive, n + 1)
         ELSE IF header.type # "dir"
         THEN untarEntries([pathSet EXCEPT !.run.ignored = Append(@, header.name)],
                           archive, n + 1)
         ELSE untarEntries(pathSet, archive, n + 1)

\* Reader.Untar
Untar(ingestManifest, archive) ==
    LET begun == RecordStartOfWork(ingestManifest.Untar)
        info == ManifestInfoIsValid([ingestManifest EXCEPT !.Untar = begun])
        canOpen == ingestManifest.hasObject /\ PathExists(ingestManifest.Object.tarFileKind)
        st == [summary |-> info.summary,
               untarredPath |-> IF ingestManifest.hasObject
                                THEN ingestManifest.Object.IngestUntarredPath ELSE NoPath,
               tarFilePath |-> IF ingestManifest.hasObject
                               THEN ingestManifest.Object.IngestTarFilePath ELSE NoPath,
               run |-> [NoUntarRun EXCEPT
                          !.called = TRUE,
                          !.valid = info.valid,
                          !.infoErrors = Len(info.summary.Errors) - Len(begun.Errors)]]
    IN IF ~info.valid
       THEN [st EXCEPT !.summary = FinishSummary(@)]
       ELSE IF ~canOpen
       THEN [st EXCEPT !.summary = FinishSummary(
                           AddUntarError(@, "Could not open file for untarring"))]
       ELSE IF ingestManifest.Object.tarFileKind = "directory"
       THEN [st EXCEPT !.run.opened = TRUE,
                       !.summary = FinishSummary(
                           AddUntarError(@, "Error reading tar file header"))]
       ELSE untarEntries([st EXCEPT !.run.opened = TRUE], archive, 1)

\* The manifests Untar is called with.
NewUntarSummary(attemptNumber) ==
    [Attempted |-> attemptNumber > 0, AttemptNumber |-> attemptNumber,
     Started |-> attemptNumber > 0, Finished |-> attemptNumber > 0, Errors |-> <<>>]

UntarObjects ==
    {[Identifier |-> id, BagName |-> bagName, Institution |-> inst,
      tarFileKind |-> kind, IngestTarFilePath |-> TarFilePaths[kind],
      IngestUntarredPath |-> NoPath] :
        id \in {"", "example.edu.my_bag"}, bagName \in {"", "my_bag"},
        inst \in {"", "example.edu"}, kind \in DOMAIN TarFilePaths}

UntarManifests ==
    [hasObject : BOOLEAN, Object : UntarObjects,
     Untar : {NewUntarSummary(n) : n \in {0, 1}}]

\* The tar files: the headers in their order, the entry whose header cannot
\* be read and the entry whose directory cannot be made (0: none).
TarEntries ==
    { <<[type |-> "dir", name |-> <<"my_bag", "/">>],
        [type |-> "reg", name |-> <<"my_bag", "/", "bagit.txt">>],
        [type |-> "symlink", name |-> <<"my_bag", "/", "link">>],
        [type |-> "reg", name |-> <<"my_bag", "/", "data", "/", "f1">>]>>,
      <<[type |-> "dir", name |-> <<"other_bag", "/">>],
        [type |-> "reg", name |-> <<"other_bag", "/", "bagit.txt">>]>>,
      <<[type |-> "dir", name |-> <<"my_bag", ".tar", "/">>],
        [type |-> "reg", name |-> <<"my_bag", ".tar", "/", "bagit.txt">>]>>,
      <<[type |-> "dir", name |-> <<"my_bag", "/", "data", "/">>],
        [type |-> "reg", name |-> <<"my_bag", "/", "data", "/", "f1">>]>>,
      <<[type |-> "reg", name |-> <<"bagit.txt">>]>> }

TarArchives == [entries : TarEntries, corruptAt : {0, 2}, mkdirFailsAt : {0, 2}]

\* The unpacker untars the bag.
UntarBag ==
    /\ ~tRun.called
    /\ \E done \in {Untar(tManifest, tArchive)} :
         /\ tManifest' = [tManifest EXCEPT
                            !.Untar = done.summary,
                            !.Object.IngestUntarredPath = done.untarredPath]
         /\ tRun' = done.run
    /\ UNCHANGED tArchive
    /\ UNCHANGED otherThanUntar

UntarNext == UntarBag

(***************************************************************************)
(*                  models.Volume on one disk (SpecVolume)                 *)
(*                                                                         *)
(* The Volume guards a map of path -> reserved bytes against the free      *)
(* space of the disk; nothing else writes to the disk meanwhile.           *)
(***************************************************************************)

VolumeSpace == 4
MaxReserveBytes == 5

VolumePaths == {"/path/to/file_1", "/path/to/file_2", "/path/to/file_3"}
ReserveSizes == 0..MaxReserveBytes

\* The bytes of all entries of a map of path -> bytes.
RECURSIVE SumBytes(_)
SumBytes(reservations) ==
    IF DOMAIN reservations = {} THEN 0
    ELSE LET somePath == CHOOSE p \in DOMAIN reservations : TRUE
         IN reservations[somePath] +
            SumBytes([p \in DOMAIN reservations \ {somePath} |-> reservations[p]])

NoReservations == [p \in {} |-> 0]

\* NewVolume(path)
NewVolume(volumePath, freeSpace) ==
    [path |-> volumePath, initialSpace |-> freeSpace, claimed |-> NoReservations]

\* Volume.ClaimedSpace, Volume.AvailableSpace, Volume.Reservations
ClaimedSpace(vol) == SumBytes(vol.claimed)
AvailableSpace(vol) == vol.initialSpace - ClaimedSpace(vol)
Reservations(vol) == vol.claimed

\* Reserve granting every request.
Reserve_AlwaysGranting(vol, filePath, numBytes) ==
    [vol |-> [vol EXCEPT !.claimed =
                 [p \in DOMAIN vol.claimed \cup {filePath} |->
                     IF p = filePath THEN numBytes ELSE vol.claimed[p]]],
     err |-> FALSE]

\* Volume.Reserve(path, numBytes): the volume afterwards and whether an
\* error is returned.
Reserve(vol, filePath, numBytes) ==
    IF numBytes > AvailableSpace(vol)
    THEN [vol |-> vol, err |-> TRUE]
    ELSE [vol |-> [vol EXCEPT !.claimed =
                      [p \in DOMAIN vol.claimed \cup {filePath} |->
                          IF p = filePath THEN numBytes ELSE vol.claimed[p]]],
          err |-> FALSE]

\* Release leaving the reservation in place.
Release_KeepingReservation(vol, filePath) == vol

\* Volume.Release(path)
Release(vol, filePath) ==
    [vol EXCEPT !.claimed = [p \in DOMAIN vol.claimed \ {filePath} |-> vol.claimed[p]]]

NoVolumeCall ==
    [op |-> "none", path |-> "", bytes |-> 0, err |-> FALSE, wasRejected |-> FALSE]
NoRequest == [path |-> "", bytes |-> 0]

\* A worker reserves space for a file.
VolumeReserve ==
    \E filePath \in VolumePaths, numBytes \in ReserveSizes :
        \E answer \in {Reserve(volume, filePath, numBytes)} :
            /\ volume' = answer.vol
            /\ volLast' = [op |-> "Reserve", path |-> filePath,
                           bytes |-> numBytes, err |-> answer.err,
                           wasRejected |->
                               volRejected = [path |-> filePath, bytes |-> numBytes]]
            /\ volHeld' = IF answer.err THEN volHeld
                          ELSE [p \in DOMAIN volHeld \cup {filePath} |->
                                   IF p = filePath THEN numBytes ELSE volHeld[p]]
            /\ volEver' = IF answer.err THEN volEver ELSE volEver \cup {filePath}
            /\ volRejected' =
                  IF answer.err THEN [path |-> filePath, bytes |-> numBytes]
                  ELSE IF volRejected = [path |-> filePath, bytes |-> numBytes]
                  THEN NoRequest
                  ELSE volRejected
            /\ UNCHANGED otherThanVolume

\* A worker releases the space of a file it moved or deleted, or of a file
\* it holds no reservation for.
VolumeRelease ==
    \E filePath \in VolumePaths :
        /\ volume' = Release(volume, filePath)
        /\ volLast' = [op |-> "Release", path |-> filePath, bytes |-> 0, err |-> FALSE,
                       wasRejected |-> FALSE]
        /\ volHeld' = [p \in DOMAIN volHeld \ {filePath} |-> volHeld[p]]
        /\ UNCHANGED <<volEver, volRejected>>
        /\ UNCHANGED otherThanVolume

VolumeNext ==
    \/ VolumeReserve
    \/ VolumeRelease

(***************************************************************************)
(*                 The DPN Copier and its volume service (SpecCopy)        *)
(*                                                                         *)
(* CopyChannel is a field other code of the package can send on, so doCopy *)
(* is run on the nil manifest HandleMessage sends and on built manifests.  *)
(***************************************************************************)

MaxCopyChannel == 2
MaxBagSize == 2

CopyMessageIds == {1, 2}
NilCopyManifest == [nil |-> TRUE, message |-> 0, LocalPath |-> "", Size |-> 0]
BuiltCopyManifests ==
    {[nil |-> FALSE, message |-> id, LocalPath |-> "/mnt/dpn/bag.tar", Size |-> size] :
        id \in CopyMessageIds, size \in 1..MaxBagSize}

\* buildCopyManifest
buildCopyManifest(messageId) == NilCopyManifest

\* reserveSpaceOnVolume: the answer okToCopy and the volume service after it.
reserveSpaceOnVolume(volumeService, copyManifest) ==
    IF ~volumeService.up
    THEN [okToCopy |-> TRUE, service |-> volumeService]
    ELSE IF volumeService.failing
    THEN [okToCopy |-> FALSE, service |-> volumeService]
    ELSE IF copyManifest.Size > volumeService.free
    THEN [okToCopy |-> FALSE, service |-> volumeService]
    ELSE [okToCopy |-> TRUE,
          service |-> [volumeService EXCEPT
                          !.free = @ - copyManifest.Size,
                          !.granted = @ \cup {<<copyManifest.LocalPath, copyManifest.Size>>}]]

NewCopyMessage == [touched |-> 0, finished |-> 0, requeued |-> 0]

\* Copier.HandleMessage: the nil manifest goes into CopyChannel, and the log
\* line that follows dereferences it.
CopierHandleMessage ==
    /\ ~cPanic
    /\ Len(cChannel) < MaxCopyChannel
    /\ \E messageId \in CopyMessageIds :
         cChannel' = Append(cChannel, buildCopyManifest(messageId))
    /\ cPanic' = TRUE
    /\ UNCHANGED <<cVolume, cCopies, cMessages>>
    /\ UNCHANGED otherThanCopy

\* Other code of the package sends a built manifest on CopyChannel.
SendOnCopyChannel ==
    /\ ~cPanic
    /\ Len(cChannel) < MaxCopyChannel
    /\ \E copyManifest \in BuiltCopyManifests :
         /\ \A i \in DOMAIN cChannel : cChannel[i].message # copyManifest.message
         /\ \A i \in DOMAIN cCopies : cCopies[i].message # copyManifest.message
         /\ cChannel' = Append(cChannel, copyManifest)
    /\ UNCHANGED <<cVolume, cCopies, cMessages, cPanic>>
    /\ UNCHANGED otherThanCopy

\* doCopy: one pass of the loop over CopyChannel.
DoCopy ==
    /\ ~cPanic
    /\ Len(cChannel) > 0
    /\ cChannel' = Tail(cChannel)
    /\ IF Head(cChannel).nil
       THEN /\ cPanic' = TRUE
            /\ UNCHANGED <<cCopies, cMessages>>
       ELSE /\ \E rsyncFails \in BOOLEAN :
                 cCopies' = Append(cCopies,
                                   [message |-> Head(cChannel).message,
                                    LocalPath |-> Head(cChannel).LocalPath,
                                    Size |-> Head(cChannel).Size,
                                    rsyncStarted |-> TRUE,
                                    rsyncFailed |-> rsyncFails])
            /\ cMessages' = [cMessages EXCEPT ![Head(cChannel).message].touched = @ + 2]
            /\ UNCHANGED cPanic
    /\ UNCHANGED cVolume
    /\ UNCHANGED otherThanCopy

\* The volume service stops or starts answering, fails or recovers.
VolumeServiceChanges ==
    /\ ~cPanic
    /\ \E isUp \in BOOLEAN, isFailing \in BOOLEAN :
         /\ <<isUp, isFailing>> # <<cVolume.up, cVolume.failing>>
         /\ cVolume' = [cVolume EXCEPT !.up = isUp, !.failing = isFailing]
    /\ UNCHANGED <<cChannel, cCopies, cMessages, cPanic>>
    /\ UNCHANGED otherThanCopy

CopyNext ==
    \/ CopierHandleMessage
    \/ SendOnCopyChannel
    \/ DoCopy
    \/ VolumeServiceChanges

(***************************************************************************)
(*                     DPNSync.Run on the node list (SpecSync)             *)
(***************************************************************************)

LocalNodeName == "aptrust"
RemoteNodeNames == {"chron", "tdr"}

\* The steps of SyncEverythingFromNode in the order of the calls.
SyncSteps ==
    <<"node", "members", "bags", "digests", "fixities",
      "replication requests", "restore requests">>

\* SyncEverythingFromNode: the steps run and whether the SyncResult of the
\* node has errors, when step number failsAt records an error (0: none).
SyncEverythingFromNode(failsAt) ==
    [steps |-> SubSeq(SyncSteps, 1, IF failsAt = 0 THEN Len(SyncSteps) ELSE failsAt),
     hasErrors |-> failsAt # 0]

NoSyncRun ==
    [done |-> FALSE, returned |-> FALSE,
     steps |-> [n \in RemoteNodeNames \cup {LocalNodeName} |-> <<>>]]

\* DPNSync.Run
DPNSyncRun(nodeAnswers) ==
    IF nodeAnswers.listError
    THEN [NoSyncRun EXCEPT !.done = TRUE, !.returned = FALSE]
    ELSE LET remotes == nodeAnswers.nodes \ {LocalNodeName}
             synced == [n \in remotes |-> SyncEverythingFromNode(nodeAnswers.failsAt[n])]
             hasErrors == \E n \in remotes : synced[n].hasErrors
         IN [done |-> TRUE,
             returned |-> hasErrors,
             steps |-> [n \in RemoteNodeNames \cup {LocalNodeName} |->
                           IF n \in remotes THEN synced[n].steps ELSE <<>>]]

\* The cron job calls Run.
SyncRunsOnce ==
    /\ ~syncRun.done
    /\ syncRun' = DPNSyncRun(syncNodes)
    /\ UNCHANGED syncNodes
    /\ UNCHANGED otherThanSync

SyncNext == SyncRunsOnce

(***************************************************************************)
(*            The store worker's goroutines (SpecHandOff)                  *)
(*                                                                         *)
(* One delivery of the WorkItem to APTStorer: HandleMessage puts the       *)
(* ingest state on StorageChannel; store, cleanup and record each take it  *)
(* from their channel. record pushes the id to the record topic and then   *)
(* saves the WorkItem state; the record worker, a process of its own,      *)
(* reads that state when the id reaches it.                                *)
(***************************************************************************)

\* The StoreResult of a manifest whose store stage has not run.
NewStoreResult == [attempt |-> 0, errs |-> {}, fatal |-> FALSE, finished |-> FALSE]

NewHandOffManifest == [store |-> NewStoreResult, record |-> NewWorkSummary]

NoLedger == [taken |-> 0, toCleanup |-> 0, toRecord |-> 0, responses |-> 0, marks |-> 0]

\* APTStorer.HandleMessage. The item is not in progress: the errors of the
\* last run are cleared, the WorkItem is marked started and the ingest
\* state goes to StorageChannel.
HandOffHandleMessage ==
    /\ hoBroker.store > 0
    /\ ~hoStorer.crashed
    /\ ~IsInProgress(hoItem, Worker)
    /\ hoBroker' = [hoBroker EXCEPT !.store = @ - 1]
    /\ hoManifest' = [hoManifest EXCEPT !.store = ClearErrors(@)]
    /\ hoItem' = MarkStartedItem(hoItem, Worker, StageStore)
    /\ hoChan' = [hoChan EXCEPT !.storage = @ + 1]
    /\ UNCHANGED <<hoStorer, hoLedger, hoRegistry, hoReader>>
    /\ UNCHANGED otherThanHandOff

\* APTStorer.store, lines 101-116: the ingest state is taken from
\* StorageChannel, the attempt is counted and the staging DB is opened. When
\* the open fails the state is sent to CleanupChannel and store goes on.
storeOpenDB ==
    /\ hoStorer.pc = "range"
    /\ ~hoStorer.crashed
    /\ hoChan.storage > 0
    /\ \E dbErr \in BOOLEAN :
         /\ hoManifest' = [hoManifest EXCEPT
               !.store.attempt = @ + 1,
               !.store.errs = IF dbErr THEN @ \cup {"error opening db"} ELSE @,
               !.store.finished = dbErr]
         /\ hoChan' = [hoChan EXCEPT !.storage = @ - 1,
                                     !.cleanup = IF dbErr THEN @ + 1 ELSE @]
         /\ hoLedger' = [hoLedger EXCEPT !.taken = @ + 1,
                                         !.toCleanup = IF dbErr THEN @ + 1 ELSE @]
         /\ hoStorer' = [hoStorer EXCEPT !.pc = "identify",
                                         !.db = IF dbErr THEN "nil" ELSE "open",
                                         !.identified = FALSE]
    /\ UNCHANGED <<hoBroker, hoItem, hoRegistry, hoReader>>
    /\ UNCHANGED otherThanHandOff

\* APTStorer.store, lines 117-122: the object identifier is derived from
\* the manifest. When that fails the state is sent to CleanupChannel and
\* store goes on to the batch loop.
storeObjectIdentifier ==
    /\ hoStorer.pc = "identify"
    /\ ~hoStorer.crashed
    /\ \E identifierErr \in BOOLEAN :
         /\ hoManifest' = [hoManifest EXCEPT
               !.store.errs = IF identifierErr THEN @ \cup {"no object identifier"} ELSE @,
               !.store.finished = IF identifierErr THEN TRUE ELSE @]
         /\ hoChan' = [hoChan EXCEPT !.cleanup = IF identifierErr THEN @ + 1 ELSE @]
         /\ hoLedger' = [hoLedger EXCEPT !.toCleanup = IF identifierErr THEN @ + 1 ELSE @]
         /\ hoStorer' = [hoStorer EXCEPT !.pc = "batches", !.identified = ~identifierErr]
    /\ UNCHANGED <<hoBroker, hoItem, hoRegistry, hoReader>>
    /\ UNCHANGED otherThanHandOff

\* How the batch loop of store can end. "saved": every batch was fetched
\* and saved without error. "fileErrors", "fatalFileError": a saveFile left
\* errors in its StorageSummary. "fetchError": getStorageSummaryBatch
\* returned an error. "panic": a call through the nil DB handle or on the
\* object that was not found brings the process down.
LoopEnds(storer) ==
    IF storer.db = "nil" THEN {"panic", "fetchError"}
    ELSE IF ~storer.identified THEN {"panic", "fetchError"}
    ELSE {"saved", "fileErrors", "fatalFileError", "fetchError"}

\* APTStorer.store, lines 124-171: the batch loop from its first batch to
\* its break.
storeBatches ==
    /\ hoStorer.pc = "batches"
    /\ ~hoStorer.crashed
    /\ \E loopEnd \in LoopEnds(hoStorer) :
         /\ hoStorer' = [hoStorer EXCEPT !.pc = IF loopEnd = "panic" THEN @ ELSE "close",
                                         !.crashed = (loopEnd = "panic")]
         /\ hoManifest' = [hoManifest EXCEPT
               !.store.errs = CASE loopEnd = "fetchError" -> @ \cup {"cannot get batch"}
                                [] loopEnd \in {"fileErrors", "fatalFileError"} ->
                                       @ \cup {"cannot save file"}
                                [] OTHER -> @,
               !.store.fatal = @ \/ loopEnd \in {"fetchError", "fatalFileError"}]
    /\ UNCHANGED <<hoBroker, hoItem, hoChan, hoLedger, hoRegistry, hoReader>>
    /\ UNCHANGED otherThanHandOff

\* APTStorer.store, lines 173-174: the DB is closed and the state is sent to
\* CleanupChannel. Close on the nil handle either brings the process down
\* or returns.
storeClose ==
    /\ hoStorer.pc = "close"
    /\ ~hoStorer.crashed
    /\ \E closePanics \in (IF hoStorer.db = "nil" THEN BOOLEAN ELSE {FALSE}) :
         IF closePanics
         THEN /\ hoStorer' = [hoStorer EXCEPT !.crashed = TRUE]
              /\ UNCHANGED <<hoChan, hoLedger>>
         ELSE /\ hoStorer' = [hoStorer EXCEPT !.pc = "range", !.db = "none"]
              /\ hoChan' = [hoChan EXCEPT !.cleanup = @ + 1]
              /\ hoLedger' = [hoLedger EXCEPT !.toCleanup = @ + 1]
    /\ UNCHANGED <<hoBroker, hoManifest, hoItem, hoRegistry, hoReader>>
    /\ UNCHANGED otherThanHandOff

\* APTStorer.cleanup: a state taken from CleanupChannel goes to
\* RecordChannel; the tar is deleted from staging when the store result has
\* no errors and every file is saved.
HandOffCleanup ==
    /\ ~hoStorer.crashed
    /\ hoChan.cleanup > 0
    /\ hoChan' = [hoChan EXCEPT !.cleanup = @ - 1, !.record = @ + 1]
    /\ hoLedger' = [hoLedger EXCEPT !.toRecord = @ + 1]
    /\ hoStorer' = [hoStorer EXCEPT !.bagDeleted =
                       @ \/ (hoManifest.store.errs = {} /\ hoStorer.pc = "range")]
    /\ UNCHANGED <<hoBroker, hoManifest, hoItem, hoRegistry, hoReader>>
    /\ UNCHANGED otherThanHandOff

\* APTStorer.record, lines 202-227: a state taken from RecordChannel gets
\* its answer to the broker and its mark on the WorkItem; on success the id
\* is pushed to the record topic.
HandOffRecord ==
    /\ ~hoStorer.crashed
    /\ hoStorer.recordPc = "range"
    /\ hoChan.record > 0
    /\ hoChan' = [hoChan EXCEPT !.record = @ - 1]
    /\ hoManifest' = [hoManifest EXCEPT !.store.finished = TRUE]
    /\ \E decided \in {storerOutcome(hoManifest)} :
         /\ hoItem' = CASE decided = "failed" -> MarkFailedItem(hoItem)
                        [] decided = "requeued" -> MarkRequeuedItem(hoItem)
                        [] decided = "succeeded" -> MarkSucceededItem(hoItem, StageRecord)
         /\ hoBroker' = [hoBroker EXCEPT
               !.responses = @ + 1,
               !.requeued = IF decided = "requeued" THEN @ + 1 ELSE @,
               !.record = IF decided = "succeeded" THEN @ + 1 ELSE @]
    /\ hoLedger' = [hoLedger EXCEPT !.responses = @ + 1, !.marks = @ + 1]
    /\ hoStorer' = [hoStorer EXCEPT !.recordPc = "save"]
    /\ UNCHANGED <<hoRegistry, hoReader>>
    /\ UNCHANGED otherThanHandOff

\* RecordWorkItemState: the manifest is serialised into the WorkItem state
\* and saved in the registry.
RecordWorkItemState(registry, ingestManifest) ==
    [registry EXCEPT !.state = ingestManifest, !.saves = @ + 1]

\* APTStorer.record, lines 229-230: LogJson and RecordWorkItemState.
HandOffSaveState ==
    /\ ~hoStorer.crashed
    /\ hoStorer.recordPc = "save"
    /\ hoRegistry' = RecordWorkItemState(hoRegistry, hoManifest)
    /\ hoStorer' = [hoStorer EXCEPT !.recordPc = "range"]
    /\ UNCHANGED <<hoBroker, hoManifest, hoItem, hoChan, hoLedger, hoReader>>
    /\ UNCHANGED otherThanHandOff

\* APTRecorder.HandleMessage: the record worker receives the id from the
\* record topic and GetIngestState builds its ingest state from the
\* WorkItem state the registry holds.
RecorderGetsIngestState ==
    /\ hoBroker.record > 0
    /\ hoBroker' = [hoBroker EXCEPT !.record = @ - 1]
    /\ hoReader' = [received |-> hoReader.received + 1, state |-> hoRegistry.state]
    /\ UNCHANGED <<hoManifest, hoItem, hoStorer, hoChan, hoLedger, hoRegistry>>
    /\ UNCHANGED otherThanHandOff

HandOffNext ==
    \/ HandOffHandleMessage
    \/ storeOpenDB
    \/ storeObjectIdentifier
    \/ storeBatches
    \/ storeClose
    \/ HandOffCleanup
    \/ HandOffRecord
    \/ HandOffSaveState
    \/ RecorderGetsIngestState

(***************************************************************************)
(*              The batch loop of APTStorer.store (SpecBatch)              *)
(*                                                                         *)
(* One store attempt on a staging DB with a number of files, batch by      *)
(* batch: getStorageSummaryBatch, one saveFile goroutine per file of the   *)
(* batch, wg.Wait, and the step to the next batch or the break.            *)
(***************************************************************************)

\* The largest number of files in the staging DB.
MaxBatchFiles == 4

\* The largest Config.StoreWorker.NetworkConnections.
MaxConnections == 3

Min(a, b) == IF a <= b THEN a ELSE b

\* BoltDB.FileIdentifierBatch: of the file identifiers in key order (1 to
\* fileCount here) those from offset start on, at most limit of them.
FileIdentifierBatch(fileCount, start, limit) ==
    IF start < 0 \/ limit < 0 \/ start >= fileCount THEN <<>>
    ELSE [i \in 1..(Min(start + limit, fileCount) - start) |-> start + i]

\* getStorageSummaryBatch with < in the place of ==: a full batch is taken
\* for the last one.
getStorageSummaryBatch_FullBatchIsLast(fileCount, start, limit, fetchErr) ==
    IF fetchErr
    THEN [summaries |-> <<>>, hasMoreFiles |-> FALSE, err |-> TRUE]
    ELSE LET identifiers == FileIdentifierBatch(fileCount, start, limit)
         IN [summaries |-> identifiers,
             hasMoreFiles |-> Len(identifiers) < limit,
             err |-> FALSE]

\* APTStorer.getStorageSummaryBatch: one StorageSummary per identifier of the
\* batch, and whether the DB may have more files.
getStorageSummaryBatch(fileCount, start, limit, fetchErr) ==
    IF fetchErr
    THEN [summaries |-> <<>>, hasMoreFiles |-> FALSE, err |-> TRUE]
    ELSE LET batchIds == FileIdentifierBatch(fileCount, start, limit)
         IN [summaries |-> batchIds,
             hasMoreFiles |-> Len(batchIds) = limit,
             err |-> FALSE]

\* APTStorer.store, lines 126-143: the next batch is fetched and a saveFile
\* goroutine is started on each of its files, in the order of the batch. A
\* fetch error ends the loop.
BatchFetch ==
    /\ btRun.pc = "fetch"
    /\ \E fetchErr \in BOOLEAN :
         \E got \in {getStorageSummaryBatch(btDb.fileCount, btRun.start, btDb.limit, fetchErr)} :
            IF got.err
            THEN /\ btRun' = [btRun EXCEPT !.pc = "done", !.fetchError = TRUE]
                 /\ UNCHANGED btHanded
            ELSE /\ btRun' = [btRun EXCEPT !.pc = "saving",
                                           !.batchNumber = @ + 1,
                                           !.batchLen = Len(got.summaries),
                                           !.hasMoreFiles = got.hasMoreFiles,
                                           !.running = {got.summaries[i] : i \in DOMAIN got.summaries}]
                 /\ btHanded' = btHanded \o
                       [i \in DOMAIN got.summaries |->
                           [file |-> got.summaries[i], batchNumber |-> btRun.batchNumber + 1]]
    /\ UNCHANGED <<btDb, btReturned>>
    /\ UNCHANGED otherThanBatch

\* The saveFile goroutine of one file of the batch returns (wg.Done).
BatchSaveFileReturns(f) ==
    /\ btRun.pc = "saving"
    /\ f \in btRun.running
    /\ btRun' = [btRun EXCEPT !.running = @ \ {f}]
    /\ btReturned' = btReturned \cup {f}
    /\ UNCHANGED <<btDb, btHanded>>
    /\ UNCHANGED otherThanBatch

\* APTStorer.store, lines 144-170: wg.Wait has returned; start moves past
\* the batch and the loop goes on or breaks.
BatchWaitDone ==
    /\ btRun.pc = "saving"
    /\ btRun.running = {}
    /\ btRun' = [btRun EXCEPT !.start = @ + btRun.batchLen,
                              !.pc = IF btRun.hasMoreFiles THEN "fetch" ELSE "done"]
    /\ UNCHANGED <<btDb, btHanded, btReturned>>
    /\ UNCHANGED otherThanBatch

BatchNext ==
    \/ BatchFetch
    \/ \E f \in 1..MaxBatchFiles : BatchSaveFileReturns(f)
    \/ BatchWaitDone

(***************************************************************************)
(*                            Specifications                               *)
(***************************************************************************)

\* The idle values of the machines a specification does not run.
IdleItem == [node |-> "", pid |-> 0, status |-> StatusPending, stage |-> StageStore]

ClaimIdle ==
    /\ regItem = IdleItem
    /\ wk = [t \in Tasks |-> [pc |-> "idle", item |-> IdleItem]]
    /\ deliveries = 0

StoreIdle ==
    /\ sGf = NewGenericFile(TRUE)
    /\ sPrior = NoPrior
    /\ sSt = NewStorageSummary(NewGenericFile(TRUE))
    /\ sPc = "idle"
    /\ sPuts = {}
    /\ sVerified = {}
    /\ sCalls = 0

\* The file of SpecUpload as the validator left it in the staging DB.
UploadFile(size) ==
    [size |-> size, uuid |-> "fresh-uuid", needsSave |-> TRUE,
     storedAt |-> FALSE, storageURL |-> NoURL,
     replicatedAt |-> FALSE, replicationURL |-> NoURL]

UploadStart(size) ==
    /\ uGf = UploadFile(size)
    /\ uBucket = [b \in Buckets |-> NoFile]
    /\ uTemp = NoFile
    /\ uPc = "idle"
    /\ uN = 1
    /\ uErrs = {}
    /\ uSends = {}
    /\ uRemoved = FALSE
    /\ uRuns = 0

UploadIdle == UploadStart(0)

SendIdle == s3Upload = NewS3Upload

\* The restore initiator before the message of the item is delivered.
RestoreStart(item, glacier) ==
    /\ rItem = item
    /\ rState = NewRestoreState
    /\ rMine = item
    /\ rPc = "idle"
    /\ rMsg = [attempts |-> 0, status |-> "queued", delay |-> 0]
    /\ rGlacier = glacier
    /\ rHist = NoHandling
    /\ rDownload = 0
    /\ rSaved = item

RestoreIdle == RestoreStart(NewDPNWorkItem(StatusPending, FALSE), "cold")

\* The pipeline before the store worker has received the message.
NewObject == [id |-> 0, events |-> {}]
NoDecision == [stage |-> StageStore, attempt |-> 0, errs |-> FALSE, fatal |-> FALSE,
               result |-> "none"]

PipeStart(priors) ==
    /\ workItem = IdleItem
    /\ manifest = [store |-> NewWorkSummary, record |-> NewWorkSummary]
    /\ db = [obj |-> NewObject, files |-> [f \in Files |-> NewGenericFile(TRUE)]]
    /\ registryPrior = priors
    /\ pharos = [objId |-> IF \E f \in Files : priors[f].exists THEN ObjectId ELSE 0,
                 events |-> {}, resent |-> {},
                 created |-> [f \in Files |-> 0],
                 fileEvents |-> [f \in Files |-> {}],
                 posts |-> 0, lastPost |-> {}]
    /\ nsq = [store |-> 1, record |-> 0, published |-> 0]
    /\ pc = "idle"
    /\ lastOutcome = NoDecision
    /\ evGen = 0
    /\ bagInStaging = TRUE
    /\ dbInStaging = TRUE
    /\ tarDeleted = FALSE
    /\ cleanupRun = NoCleanupRun
    /\ summaries = [f \in Files |-> NoSummary]

PipeIdle == PipeStart([f \in Files |-> NoPrior])

\* The WorkItem whose ingest is to be decided.
DecideStart(item) ==
    /\ qItem = item
    /\ qTry = NotDecided

DecideIdle ==
    DecideStart([action |-> ActionIngest, stage |-> StageReceive,
                 status |-> StatusPending, retry |-> TRUE])

\* The bucket reader before its first run, with the WorkItems the registry
\* holds from earlier.
ReaderStart(registry) ==
    /\ bBucket = {}
    /\ bRegistry = registry
    /\ bStats = NewAPTBucketReaderStats
    /\ bTodo = {}
    /\ bPc = "idle"
    /\ bPrev = [listed |-> FALSE, bucket |-> {}]
    /\ bRuns = 0
    /\ bUploads = 0

ReaderIdle == ReaderStart({})

\* The registry before the first run: empty, or with the WorkItem of an
\* earlier upload, recent enough for the cache or not.
EarlierRegistries ==
    {{}} \cup {{[id |-> 1, name |-> "a.tar", etag |-> "etag-1", size |-> 100,
                 recent |-> isRecent]} : isRecent \in BOOLEAN}

\* The validator before Validate is called.
ValidateStart(bag, config) ==
    /\ vBag = bag
    /\ vConfig = config
    /\ vResult = NoValidationResult

ValidateIdle ==
    ValidateStart([GenericFiles |-> <<>>, Tags |-> <<>>, parseErrors |-> <<>>],
                  [fileSpec |-> [path |-> "aptrust-info.txt", presence |-> OPTIONAL],
                   tagSpec |-> [name |-> "Access", presence |-> OPTIONAL, emptyOK |-> TRUE,
                                allowedValues |-> <<>>]])

\* The Reader before Untar is called.
UntarStart(ingestManifest, archive) ==
    /\ tManifest = ingestManifest
    /\ tArchive = archive
    /\ tRun = NoUntarRun

UntarIdle ==
    UntarStart([hasObject |-> FALSE,
                Object |-> [Identifier |-> "", BagName |-> "", Institution |-> "",
                            tarFileKind |-> "empty", IngestTarFilePath |-> NoPath,
                            IngestUntarredPath |-> NoPath],
                Untar |-> NewUntarSummary(0)],
               [entries |-> <<>>, corruptAt |-> 0, mkdirFailsAt |-> 0])

\* The Volume as NewVolume returns it.
VolumeStart(freeSpace) ==
    /\ volume = NewVolume("/mnt/staging", freeSpace)
    /\ volLast = NoVolumeCall
    /\ volHeld = NoReservations
    /\ volEver = {}
    /\ volRejected = NoRequest

VolumeIdle == VolumeStart(0)

\* The Copier as NewCopier returns it, with the volume service.
CopyStart(freeSpace) ==
    /\ cChannel = <<>>
    /\ cVolume = [up |-> TRUE, failing |-> FALSE, free |-> freeSpace, granted |-> {}]
    /\ cCopies = <<>>
    /\ cMessages = [id \in CopyMessageIds |-> NewCopyMessage]
    /\ cPanic = FALSE

CopyIdle == CopyStart(0)

\* DPNSync as NewDPNSync returns it, and the answers the registries will give.
SyncStart(nodeAnswers) ==
    /\ syncNodes = nodeAnswers
    /\ syncRun = NoSyncRun

SyncIdle ==
    SyncStart([listError |-> TRUE, nodes |-> {},
               failsAt |-> [n \in RemoteNodeNames |-> 0]])

\* The WorkItem's id is on the store topic `waiting` times; the registry
\* holds the state the validate stage saved.
HandOffStart(waiting) ==
    /\ hoBroker = [store |-> waiting, record |-> 0, responses |-> 0, requeued |-> 0]
    /\ hoManifest = NewHandOffManifest
    /\ hoItem = IdleItem
    /\ hoStorer = [pc |-> "range", db |-> "none", identified |-> FALSE,
                   recordPc |-> "range", crashed |-> FALSE, bagDeleted |-> FALSE]
    /\ hoChan = [storage |-> 0, cleanup |-> 0, record |-> 0]
    /\ hoLedger = NoLedger
    /\ hoRegistry = [state |-> NewHandOffManifest, saves |-> 0]
    /\ hoReader = [received |-> 0, state |-> NewHandOffManifest]

HandOffIdle == HandOffStart(0)

\* A store attempt about to fetch its first batch from a DB of fileCount
\* files, with NetworkConnections = limit.
BatchStart(fileCount, limit, at) ==
    /\ btDb = [fileCount |-> fileCount, limit |-> limit]
    /\ btRun = [pc |-> at, start |-> 0, batchNumber |-> 0, batchLen |-> 0,
                hasMoreFiles |-> FALSE, running |-> {}, fetchError |-> FALSE]
    /\ btHanded = <<>>
    /\ btReturned = {}

BatchIdle == BatchStart(0, 1, "done")

ClaimInit ==
    /\ ClaimIdle
    /\ StoreIdle
    /\ PipeIdle
    /\ UploadIdle
    /\ SendIdle
    /\ RestoreIdle
    /\ DecideIdle
    /\ ReaderIdle
    /\ ValidateIdle
    /\ UntarIdle
    /\ VolumeIdle
    /\ CopyIdle
    /\ SyncIdle
    /\ HandOffIdle
    /\ BatchIdle

StoreInit ==
    /\ ClaimIdle
    /\ PipeIdle
    /\ UploadIdle
    /\ SendIdle
    /\ RestoreIdle
    /\ DecideIdle
    /\ ReaderIdle
    /\ ValidateIdle
    /\ UntarIdle
    /\ VolumeIdle
    /\ CopyIdle
    /\ SyncIdle
    /\ HandOffIdle
    /\ BatchIdle
    /\ sGf \in {NewGenericFile(savable) : savable \in BOOLEAN}
    /\ sPrior \in PriorVersions
    /\ sSt = NewStorageSummary(sGf)
    /\ sPc = "idle"
    /\ sPuts = {}
    /\ sVerified = {}
    /\ sCalls = 0

Init ==
    /\ ClaimIdle
    /\ StoreIdle
    /\ UploadIdle
    /\ SendIdle
    /\ RestoreIdle
    /\ DecideIdle
    /\ ReaderIdle
    /\ ValidateIdle
    /\ UntarIdle
    /\ VolumeIdle
    /\ CopyIdle
    /\ SyncIdle
    /\ HandOffIdle
    /\ BatchIdle
    /\ \E priors \in [Files -> PipePriors] : PipeStart(priors)

UploadInit ==
    /\ ClaimIdle
    /\ StoreIdle
    /\ PipeIdle
    /\ SendIdle
    /\ RestoreIdle
    /\ DecideIdle
    /\ ReaderIdle
    /\ ValidateIdle
    /\ UntarIdle
    /\ VolumeIdle
    /\ CopyIdle
    /\ SyncIdle
    /\ HandOffIdle
    /\ BatchIdle
    /\ \E size \in FileSizes : UploadStart(size)

SendInit ==
    /\ ClaimIdle
    /\ StoreIdle
    /\ PipeIdle
    /\ UploadIdle
    /\ SendIdle
    /\ RestoreIdle
    /\ DecideIdle
    /\ ReaderIdle
    /\ ValidateIdle
    /\ UntarIdle
    /\ VolumeIdle
    /\ CopyIdle
    /\ SyncIdle
    /\ HandOffIdle
    /\ BatchIdle

RestoreInit ==
    /\ ClaimIdle
    /\ StoreIdle
    /\ PipeIdle
    /\ UploadIdle
    /\ SendIdle
    /\ DecideIdle
    /\ ReaderIdle
    /\ ValidateIdle
    /\ UntarIdle
    /\ VolumeIdle
    /\ CopyIdle
    /\ SyncIdle
    /\ HandOffIdle
    /\ BatchIdle
    /\ \E item \in DPNWorkItems, glacier \in GlacierStates : RestoreStart(item, glacier)

SpecClaim == ClaimInit /\ [][ClaimNext]_vars

SpecStore == StoreInit /\ [][StoreNext]_vars

Spec == Init /\ [][Next]_vars

\* The goroutines of the workers keep running and the broker hands out
\* every message that waits on a topic.
FairSpec == Init /\ [][Next]_vars /\ WF_vars(Next)

SpecUpload == UploadInit /\ [][UploadNext]_vars

SpecSend == SendInit /\ [][SendNext]_vars

SpecRestore == RestoreInit /\ [][RestoreNext]_vars

DecideInit ==
    /\ ClaimIdle
    /\ StoreIdle
    /\ PipeIdle
    /\ UploadIdle
    /\ SendIdle
    /\ RestoreIdle
    /\ ReaderIdle
    /\ ValidateIdle
    /\ UntarIdle
    /\ VolumeIdle
    /\ CopyIdle
    /\ SyncIdle
    /\ HandOffIdle
    /\ BatchIdle
    /\ \E item \in WorkItems : DecideStart(item)

SpecDecide == DecideInit /\ [][DecideNext]_vars

ReaderInit ==
    /\ ClaimIdle
    /\ StoreIdle
    /\ PipeIdle
    /\ UploadIdle
    /\ SendIdle
    /\ RestoreIdle
    /\ DecideIdle
    /\ ValidateIdle
    /\ UntarIdle
    /\ VolumeIdle
    /\ CopyIdle
    /\ SyncIdle
    /\ HandOffIdle
    /\ BatchIdle
    /\ \E registry \in EarlierRegistries : ReaderStart(registry)

SpecReader == ReaderInit /\ [][ReaderNext]_vars

ValidateInit ==
    /\ ClaimIdle
    /\ StoreIdle
    /\ PipeIdle
    /\ UploadIdle
    /\ SendIdle
    /\ RestoreIdle
    /\ DecideIdle
    /\ ReaderIdle
    /\ UntarIdle
    /\ VolumeIdle
    /\ CopyIdle
    /\ SyncIdle
    /\ HandOffIdle
    /\ BatchIdle
    /\ \E bag \in Bags, config \in BagValidationConfigs : ValidateStart(bag, config)

SpecValidate == ValidateInit /\ [][ValidateNext]_vars

UntarInit ==
    /\ ClaimIdle
    /\ StoreIdle
    /\ PipeIdle
    /\ UploadIdle
    /\ SendIdle
    /\ RestoreIdle
    /\ DecideIdle
    /\ ReaderIdle
    /\ ValidateIdle
    /\ VolumeIdle
    /\ CopyIdle
    /\ SyncIdle
    /\ HandOffIdle
    /\ BatchIdle
    /\ \E ingestManifest \in UntarManifests, archive \in TarArchives : UntarStart(ingestManifest, archive)

SpecUntar == UntarInit /\ [][UntarNext]_vars

VolumeInit ==
    /\ ClaimIdle
    /\ StoreIdle
    /\ PipeIdle
    /\ UploadIdle
    /\ SendIdle
    /\ RestoreIdle
    /\ DecideIdle
    /\ ReaderIdle
    /\ ValidateIdle
    /\ UntarIdle
    /\ CopyIdle
    /\ SyncIdle
    /\ HandOffIdle
    /\ BatchIdle
    /\ \E freeSpace \in 1..VolumeSpace : VolumeStart(freeSpace)

SpecVolume == VolumeInit /\ [][VolumeNext]_vars

CopyInit ==
    /\ ClaimIdle
    /\ StoreIdle
    /\ PipeIdle
    /\ UploadIdle
    /\ SendIdle
    /\ RestoreIdle
    /\ DecideIdle
    /\ ReaderIdle
    /\ ValidateIdle
    /\ UntarIdle
    /\ VolumeIdle
    /\ SyncIdle
    /\ HandOffIdle
    /\ BatchIdle
    /\ \E freeSpace \in 0..MaxBagSize : CopyStart(freeSpace)

SpecCopy == CopyInit /\ [][CopyNext]_vars

SyncInit ==
    /\ ClaimIdle
    /\ StoreIdle
    /\ PipeIdle
    /\ UploadIdle
    /\ SendIdle
    /\ RestoreIdle
    /\ DecideIdle
    /\ ReaderIdle
    /\ ValidateIdle
    /\ UntarIdle
    /\ VolumeIdle
    /\ CopyIdle
    /\ HandOffIdle
    /\ BatchIdle
    /\ \E listFails \in BOOLEAN, withLocal \in BOOLEAN,
          failing \in [RemoteNodeNames -> 0..Len(SyncSteps)] :
         SyncStart([listError |-> listFails,
                    nodes |-> RemoteNodeNames \cup (IF withLocal THEN {LocalNodeName} ELSE {}),
                    failsAt |-> failing])

SpecSync == SyncInit /\ [][SyncNext]_vars

HandOffInit ==
    /\ ClaimIdle
    /\ StoreIdle
    /\ PipeIdle
    /\ UploadIdle
    /\ SendIdle
    /\ RestoreIdle
    /\ DecideIdle
    /\ ReaderIdle
    /\ ValidateIdle
    /\ UntarIdle
    /\ VolumeIdle
    /\ CopyIdle
    /\ SyncIdle
    /\ BatchIdle
    /\ HandOffStart(1)

SpecHandOff == HandOffInit /\ [][HandOffNext]_vars

BatchInit ==
    /\ ClaimIdle
    /\ StoreIdle
    /\ PipeIdle
    /\ UploadIdle
    /\ SendIdle
    /\ RestoreIdle
    /\ DecideIdle
    /\ ReaderIdle
    /\ ValidateIdle
    /\ UntarIdle
    /\ VolumeIdle
    /\ CopyIdle
    /\ SyncIdle
    /\ HandOffIdle
    /\ \E fileCount \in 0..MaxBatchFiles, limit \in 1..MaxConnections :
         BatchStart(fileCount, limit, "fetch")

\* The goroutines of a store attempt are scheduled and every saveFile
\* returns.
SpecBatch == BatchInit /\ [][BatchNext]_vars /\ WF_vars(BatchNext)

(***************************************************************************)
(*                                 Claims                                  *)
(***************************************************************************)

\* C1: at-most-once worker. No two tasks of different processes are both
\* past their write of status=Started for the same WorkItem (each having
\* read the WorkItem and found it not in progress) before either releases it.
C1_AtMostOneStarted ==
    \A a, b \in Tasks :
        (a # b /\ ProcOf(a) # ProcOf(b))
            => ~(wk[a].pc = "storing" /\ wk[b].pc = "storing")

\* C2: cleanup safety. In every reachable state the tar has been deleted
\* from the receiving bucket only if every file that needs saving has
\* stored-at and replicated-at set and the registry has returned an id for
\* the object and for every such file.
C2_CleanupSafety ==
    tarDeleted =>
        /\ db.obj.id # 0
        /\ db.obj.id = pharos.objId
        /\ \A f \in Files : db.files[f].needsSave =>
              /\ db.files[f].storedAt
              /\ db.files[f].replicatedAt
              /\ db.files[f].id # 0
              /\ (pharos.created[f] > 0 \/ registryPrior[f].exists)

\* C2 witness: the tar is deleted and a file of the object needed saving,
\* after a store attempt and a record attempt that had to be retried.
C2_Witness ==
    /\ tarDeleted
    /\ \E f \in Files : db.files[f].needsSave
    /\ manifest.store.attempt = 2
    /\ manifest.record.attempt = 2

\* How the latest attempt of a stage ended, against the retry rule.
RetryRuleKept ==
    /\ manifest.store.attempt <= StoreMaxAttempts
    /\ manifest.record.attempt <= RecordMaxAttempts
    /\ lastOutcome.result # "none" =>
         LET maxAttempts == IF lastOutcome.stage = StageStore THEN StoreMaxAttempts
                            ELSE RecordMaxAttempts
         IN /\ (lastOutcome.errs /\ ~lastOutcome.fatal) =>
                  (lastOutcome.result = "requeued" <=> lastOutcome.attempt < maxAttempts)
            /\ (lastOutcome.fatal \/ (lastOutcome.errs /\ lastOutcome.attempt >= maxAttempts)) =>
                  lastOutcome.result = "failed"
            /\ lastOutcome.result = "requeued" => lastOutcome.errs
            /\ lastOutcome.result = "failed" =>
                  /\ workItem.status = StatusFailed
                  /\ pc = "idle" /\ nsq.store = 0 /\ nsq.record = 0

LeftStoreStage ==
    workItem.status = StatusFailed \/ StageRank(workItem.stage) > StageRank(StageStore)

LeftRecordStage ==
    workItem.status = StatusFailed \/ StageRank(workItem.stage) > StageRank(StageRecord)

StagesInOrder ==
    /\ nsq.published <= 1
    /\ nsq.published > 0 =>
          /\ manifest.store.attempt >= 1
          /\ manifest.store.errs = {} /\ ~manifest.store.fatal
          /\ StageRank(workItem.stage) >= StageRank(StageRecord)
    /\ workItem.stage = StageRecord => nsq.published > 0
    /\ workItem.stage = StageCleanup =>
          /\ nsq.published > 0
          /\ manifest.record.attempt >= 1
          /\ manifest.record.errs = {} /\ ~manifest.record.fatal

Ingested == {f \in Files : db.files[f].needsSave}

\* C7: event completeness. After an ingest whose record stage succeeded the
\* registry holds for every ingested file exactly the seven per-file events
\* and for the object exactly three events (ingest, identifier_assignment,
\* access_assignment), with pairwise distinct identifiers.
C7_EventCompleteness ==
    (workItem.stage = StageCleanup) =>
        /\ \A f \in Ingested : pharos.fileEvents[f] = FileEventTypes
        /\ Cardinality(pharos.events) = 3
        /\ {e.type : e \in pharos.events} = ObjectEventTypes

\* C8: no duplicate events on retry. A record attempt that follows one that
\* persisted the object and some of its events sends only events that are
\* not yet persisted: no event identifier that the registry holds is sent
\* to it again.
C8_NoDuplicateEvents == pharos.resent = {}

\* C9: partial success of a batch create. The files a failed batch POST
\* reports as created have the registry's id in the staging DB, the error
\* is not fatal, and the batch POST of a record attempt contains exactly
\* the files that need saving, have no previous version and have id 0 in
\* the staging DB, so that no file is created twice.
C9_PartialBatchCreate ==
    /\ [](/\ \A f \in Files : pharos.created[f] <= 1
          /\ \A f \in Files : pharos.created[f] = 1 => db.files[f].id = FileId(f)
          /\ ("error saving batch" \in manifest.record.errs) => ~manifest.record.fatal)
    /\ [][pharos'.posts # pharos.posts =>
            /\ pharos'.lastPost =
                 {f \in Files : /\ db.files[f].needsSave
                                /\ ~db.files[f].prevExists
                                /\ db.files[f].id = 0}
            /\ \A f \in pharos'.lastPost : pharos.created[f] = 0]_vars

\* C9 witness: a first batch POST created f1 alone and returned an error,
\* and the next record attempt has posted f2 alone.
C9_Witness ==
    /\ pharos.posts = 2
    /\ pharos.lastPost = {"f2"}
    /\ pharos.created["f1"] = 1

\* C3: when the registry reports a prior version of the file but its UUID
\* cannot be fetched or extracted, saveFile marks the store result fatal and
\* sends no upload of the file in that store attempt.
C3_NoUploadAfterUuidFailure ==
    ("cannot find existing UUID" \in sSt.errs) => (sSt.fatal /\ sSt.log = <<>>)

\* C4: UUID stability. After saveFile on a file for which the registry
\* reported a prior version, the file's UUID is the prior version's; with an
\* unchanged SHA-256 needs-save is false and nothing was uploaded; with a
\* changed SHA-256 needs-save is true and every upload went to the prior UUID.
C4_UuidStability ==
    (sPc = "idle" /\ sCalls > 0 /\ sSt.gf.prevExists) =>
        /\ sSt.gf.uuid = sPrior.uuid
        /\ (sPrior.sha256 = sSt.gf.sha256 =>
                (~sSt.gf.needsSave /\ sSt.log = <<>>))
        /\ (sPrior.sha256 # sSt.gf.sha256 =>
                (sSt.gf.needsSave /\ \A i \in DOMAIN sSt.log : sSt.log[i].key = sPrior.uuid))

\* One copy of the file, in memory or in the staging DB, bears the mark of a
\* destination only with its URL, and only if an upload attempt to that URL
\* was followed by a listing of the file's size with no uploader error.
MarkedOnlyIfVerified(gf) ==
    /\ gf.storedAt =>
          /\ gf.storageURL.bucket = BucketOf("s3")
          /\ [dest |-> "s3", key |-> gf.storageURL.key] \in sVerified
    /\ gf.replicatedAt =>
          /\ gf.replicationURL.bucket = BucketOf("glacier")
          /\ [dest |-> "glacier", key |-> gf.replicationURL.key] \in sVerified
    /\ (gf.storageURL # NoURL) => gf.storedAt
    /\ (gf.replicationURL # NoURL) => gf.replicatedAt

\* C10: in every reachable state a file marked stored in a destination
\* (timestamp and URL) was marked by an upload attempt after which the
\* listing by UUID returned an object of the file's size and the uploader
\* had reported no error.
C10_StoredOnlyIfVerified == MarkedOnlyIfVerified(sSt.gf) /\ MarkedOnlyIfVerified(sGf)

\* C10 witness: the staging DB holds the file marked in both destinations,
\* the primary mark earned only on the last of the upload attempts.
C10_Witness ==
    /\ sGf.storedAt /\ sGf.replicatedAt
    /\ \E i \in DOMAIN sSt.log : sSt.log[i].n = MAX_UPLOAD_ATTEMPTS /\ sSt.log[i].dest = "s3"

\* C11: the size verification that follows an upload lists the bucket that
\* was just written: the replica bucket after an upload to the replica
\* bucket, the primary bucket after an upload to the primary bucket, so that
\* a file is marked replicated only when the replica bucket holds an object
\* of the file's size under its UUID.
C11_ListingOfDestination ==
    /\ \A s \in uSends : s.listed = BucketOf(s.dest)
    /\ uGf.replicatedAt => uBucket[BucketOf("glacier")] = uGf.size

\* The destinations the running saveFile has sent an upload to.
UploadedTo(dest) == \E i \in DOMAIN sSt.log : sSt.log[i].dest = dest

\* The destination had succeeded, by the staging DB, when saveFile was called.
SucceededBefore(dest) ==
    IF dest = "s3" THEN sGf.storedAt /\ sGf.storageURL # NoURL
    ELSE sGf.replicatedAt /\ sGf.replicationURL # NoURL

C13_LargeFileFromDisk ==
    \A s \in uSends :
        IF uGf.size >= S3LargeFileSize
        THEN s.onDisk /\ s.body = "temp file"
        ELSE s.body = "tar entry reader"

\* C14: the store worker has removed the large-file temp file of a
\* GenericFile only if both the primary and the replica upload of the file
\* have succeeded (both timestamps set); while either upload is outstanding
\* the temp file stays in place for the next attempt.
C14_TempFileKept ==
    /\ [](uRemoved => (uGf.storedAt /\ uGf.replicatedAt))
    /\ [][(uTemp # NoFile /\ uTemp' = NoFile) =>
            (uGf'.storedAt /\ uGf'.replicatedAt)]_vars
    /\ []((uPc = "idle" /\ isLargeFile(uGf) /\ uGf.storedAt /\ ~uGf.replicatedAt)
             => uTemp # NoFile)

\* C14 witness: the second run of saveFile on a large file has removed the
\* temp file, with both uploads done.
C14_Witness ==
    /\ uRemoved
    /\ uRuns = 2
    /\ isLargeFile(uGf)
    /\ uGf.storedAt /\ uGf.replicatedAt
    /\ uTemp = NoFile

\* The errors doUpload reports for an upload that was sent.
UploadErrors == {"returned nothing", "returned wrong size", "upload error"}

\* An upload attempt of the log after which doUpload marked the file.
Marking(i) == sSt.log[i].listed /\ ~sSt.log[i].err

\* C15: copyToLongTermStorage makes at most 15 upload attempts per
\* destination, numbered upwards from 1, stops at the first attempt that
\* marks the file stored in the destination, and the size-mismatch,
\* missing-object or upload error is in the file's store result only when
\* a 15th attempt has failed; the loop ends after the 15th round at the
\* latest.
C15_UploadAttempts ==
    /\ \A i \in DOMAIN sSt.log : sSt.log[i].n \in 1..MAX_UPLOAD_ATTEMPTS
    /\ \A i, j \in DOMAIN sSt.log :
          (i < j /\ sSt.log[i].dest = sSt.log[j].dest) =>
              /\ sSt.log[i].n < sSt.log[j].n
              /\ ~Marking(i)
    /\ \A dest \in Dests :
          Cardinality({i \in DOMAIN sSt.log : sSt.log[i].dest = dest})
              <= MAX_UPLOAD_ATTEMPTS
    /\ (sSt.errs \cap UploadErrors # {}) =>
          \E i \in DOMAIN sSt.log : sSt.log[i].n = MAX_UPLOAD_ATTEMPTS /\ ~Marking(i)

\* C15 witness: fifteen uploads to the primary bucket have failed and left
\* their error in the store result, and the copy to the replica bucket has
\* stopped at its second attempt, which marked the file.
C15_Witness ==
    /\ sPc = "save"
    /\ Cardinality({i \in DOMAIN sSt.log : sSt.log[i].dest = "s3"}) = MAX_UPLOAD_ATTEMPTS
    /\ sSt.errs \cap UploadErrors # {}
    /\ ~sSt.gf.storedAt
    /\ Cardinality({i \in DOMAIN sSt.log : sSt.log[i].dest = "glacier"}) = 2
    /\ sSt.gf.replicatedAt

\* The part size, in MiB, the ladder gives to a file size in MiB: 5 MiB
\* below 500 MiB, 128 MiB from 500 MiB, 512 MiB from 5 GiB, 1 GiB from 50 GiB.
LadderPartSize(size) ==
    IF size < 500 THEN 5
    ELSE IF size < 5 * 1024 THEN 128
    ELSE IF size < 50 * 1024 THEN 512
    ELSE 1024

\* C16: part-size ladder of S3Upload.Send. For every file size the chosen
\* part size is 5 MiB below 500 MiB, 128 MiB from 500 MiB, 512 MiB from
\* 5 GiB and 1 GiB from 50 GiB, and it is not smaller than the part size
\* chosen for the next smaller file size.
C16_PartSizeLadder ==
    s3Upload.sent =>
        /\ s3Upload.chunkSize = LadderPartSize(s3Upload.size)
        /\ s3Upload.size > 0 => PartSize(s3Upload.size - 1) <= s3Upload.chunkSize

\* C17: cancellation in the restore initiator. When the DPNWorkItem fetched
\* for a message is already cancelled or completed, the handler issues no
\* HEAD and no restore request, leaves the item's status as it was, clears
\* node and pid, and finishes the broker message.
C17_CancelledAbandoned ==
    IsCompletedOrCancelled(rHist.fetched) =>
        /\ rHist.head = "none"
        /\ ~rHist.restoreRequested
        /\ rMine.status = rHist.fetched.status
        /\ rItem.status = rHist.fetched.status
        /\ (rPc = "idle" =>
              /\ rMine.node = "" /\ rMine.pid = 0
              /\ rMsg.status = "finished")

\* C18: restore already in progress. When HEAD answers 409 Conflict, or
\* reports a restore request in progress, the initiator issues no restore
\* request, records the request as accepted, clears node and pid on the
\* work item, and requeues the message with a delay of 3 hours; the work
\* item is not marked Failed and the message is not finished.
C18_RestoreInProgress ==
    (rHist.head \in {"conflict", "inProgress"}) =>
        /\ ~rHist.restoreRequested
        /\ rState.requestAccepted
        /\ rMine.status # StatusFailed
        /\ rMsg.status # "finished"
        /\ (rPc = "idle" =>
              /\ rSaved.state.requestAccepted
              /\ rMine.node = "" /\ rMine.pid = 0
              /\ rSaved.node = "" /\ rSaved.pid = 0
              /\ rSaved.status # StatusFailed
              /\ rMsg.status = "requeued"
              /\ rMsg.delay = 3 * 60)

\* C18 witness: the second delivery of the message, three hours after the
\* restore was requested, has met a 409 Conflict and requeued the message.
C18_Witness ==
    /\ rPc = "idle"
    /\ rHist.head = "conflict"
    /\ rMsg.attempts = 2
    /\ rMsg.status = "requeued"
    /\ rGlacier = "restoring"

\* The restore state a DPNWorkItem.State stands for: 0 not yet requested,
\* 1 requested, 2 available in the hot tier.
RestorePhase(json) ==
    IF json.isAvailableInS3 THEN 2 ELSE IF json.requestAccepted THEN 1 ELSE 0

\* C19: restore state machine. The restore state of the work item in the
\* registry never falls behind the one a handling found there; and when
\* HEAD reports the object restored to the hot tier, no restore request is
\* issued, the expiry date is recorded, the item's stage is
\* available-in-S3, the message is finished and the item id is enqueued on
\* the download topic exactly once.
C19_RestoreStateMachine ==
    /\ RestorePhase(rItem.state) >= RestorePhase(rHist.fetched.state)
    /\ (rPc = "idle" /\ rHist.head = "complete") =>
          /\ ~rHist.restoreRequested
          /\ rState.expiryRecorded
          /\ rMine.stage = StageAvailableInS3
          /\ rMsg.status = "finished"
          /\ rHist.enqueued = 1
          /\ rDownload = 1

\* C20: when the restore initiator gives up on a work item, for a fatal
\* error or for a transient error past the attempt cap, the DPNWorkItem
\* saved to the registry has status Failed and retry=false, and the broker
\* message is finished.
C20_GiveUpSavedFailed ==
    (/\ rPc = "idle"
     /\ rHist.finished = "error"
     /\ (rState.errorIsFatal \/ rMsg.attempts > RestoreMaxAttempts)) =>
        /\ rSaved.status = StatusFailed
        /\ rSaved.retry = FALSE
        /\ rMsg.status = "finished"

\* C21: attempt bound of the restore initiator. A message whose handling
\* ended with an error is requeued by FinishWithError only while its attempt
\* count is below MaxAttempts, so it is handled at most MaxAttempts times.
C21_AttemptBound ==
    (rPc = "idle" /\ rHist.finished = "error" /\ rMsg.status = "requeued")
        => rMsg.attempts < RestoreMaxAttempts

\* C22: a file flagged previous-version-exists that needs saving and has no
\* registry id blocks cleanup. The record attempt on an object with such a
\* file ends with an error in RecordResult, and the cleanup that follows
\* deletes nothing from the receiving bucket or from staging and does not
\* mark the WorkItem succeeded.
HasFileWithoutId ==
    \E f \in Files : /\ db.files[f].prevExists
                     /\ db.files[f].needsSave
                     /\ db.files[f].id = 0

C22_MissingIdBlocksCleanup ==
    [][ /\ (pc = "record" /\ HasFileWithoutId) => manifest'.record.errs # {}
        /\ (pc = "recordCleanup" /\ HasFileWithoutId) =>
              /\ UNCHANGED <<bagInStaging, dbInStaging, tarDeleted>>
              /\ lastOutcome'.result # "succeeded"
              /\ workItem'.status # StatusSuccess ]_vars

C22_Witness ==
    /\ pc = "idle"
    /\ HasFileWithoutId
    /\ lastOutcome.stage = StageRecord
    /\ lastOutcome.result = "requeued"
    /\ "previous version without Id" \in manifest.record.errs
    /\ dbInStaging
    /\ ~tarDeleted

\* C23: ShouldTryIngest answers false for every ingest WorkItem in progress
\* (status Started, at any stage), for every completed one (stage Record,
\* Cleanup or Resolve, or Store with status Pending), and for every WorkItem
\* with retry = false.
IngestInProgress(item) == item.action = ActionIngest /\ item.status = StatusStarted

IngestCompleted(item) ==
    /\ item.action = ActionIngest
    /\ \/ item.stage \in {StageRecord, StageCleanup, StageResolve}
       \/ (item.stage = StageStore /\ item.status = StatusPending)

C23_NoRequeueInProgress ==
    (qTry.decided /\ (IngestInProgress(qItem) \/ IngestCompleted(qItem) \/ ~qItem.retry))
        => ~qTry.answer

\* C24: bucket-reader idempotence. A run over the bucket as the run before
\* it listed it creates no WorkItem, and the registry never holds two
\* WorkItems with the same name, etag and size, also when two uploads share
\* name and etag and differ in size.
C24_ReaderIdempotent ==
    /\ (bPc = "running" /\ bPrev.listed /\ bPrev.bucket = bBucket)
           => bStats.WorkItemsCreated = <<>>
    /\ \A w \in bRegistry, v \in bRegistry :
           (w.name = v.name /\ w.etag = v.etag /\ w.size = v.size) => w = v

C24_Witness ==
    /\ bPc = "running"
    /\ bTodo = {}
    /\ bPrev.listed
    /\ bPrev.bucket = bBucket
    /\ bBucket # {}
    /\ \E w \in bRegistry, v \in bRegistry :
           w.name = v.name /\ w.etag = v.etag /\ w.size # v.size

\* C25: digest validation. When Validate has compared the digests, every
\* file whose manifest declares an MD5 or SHA-256 other than the computed
\* one has a validation error naming the file and both digests and its
\* verified-at timestamp unset, and no file without a mismatch has a digest
\* error; a result for a bag with a mismatch has HasErrors() true and an
\* ingest-error-message that is not empty.
DigestError(kind, gf) ==
    [kind |-> kind, path |-> gf.path,
     manifest |-> IF kind = "Md5 digest" THEN gf.manifestMd5 ELSE gf.manifestSha256,
     digest |-> IF kind = "Md5 digest" THEN gf.md5 ELSE gf.sha256]

ValidationErrors == {vResult.ValidationSummary.errors[i] :
                        i \in DOMAIN vResult.ValidationSummary.errors}

DeclaredOtherMd5(gf) == gf.manifestMd5 \notin {"", gf.md5}
DeclaredOtherSha256(gf) == gf.manifestSha256 \notin {"", gf.sha256}

TagsOfSpec == FindTag(vBag, vConfig.tagSpec.name)

C26_ForbiddenTags ==
    (vResult.outcome # "none" /\ vBag.parseErrors = <<>>) =>
        /\ vResult.outcome = "returned"
        /\ vConfig.tagSpec.presence = FORBIDDEN =>
              ((\E e \in ValidationErrors : e.kind = "Forbidden tag found")
                  <=> TagsOfSpec # <<>>)
        /\ (/\ vConfig.tagSpec.presence # FORBIDDEN
            /\ TagsOfSpec # <<>>
            /\ vConfig.tagSpec.allowedValues # <<>>) =>
              ((\E e \in ValidationErrors : e.kind = "Tag has illegal value")
                  <=> TrimSpace(ToLower(TagsOfSpec[1].value)) \notin {<<"a", "b">>, <<"c">>})

\* The top-level directory a header name lies in: what precedes its first "/".
RECURSIVE TopDirOf(_)
TopDirOf(headerName) ==
    IF Len(headerName) = 0 \/ Head(headerName) = "/" THEN <<>>
    ELSE <<Head(headerName)>> \o TopDirOf(Tail(headerName))

\* The name of the tar file at IngestTarFilePath without directory and ".tar".
TarBaseName == WithoutTarSuffix(PathBase(tManifest.Object.IngestTarFilePath))

BagNameMismatchReported ==
    \E i \in DOMAIN tManifest.Untar.Errors :
        tManifest.Untar.Errors[i] = "Bag should untar to a folder named"

\* C27: once Untar has read the first entry of the tar, a top-level directory
\* that differs from the tar file's base name without ".tar" has put the
\* bag-name mismatch error in the Untar summary and nothing was extracted,
\* and a top-level directory that equals that name has passed the check.
C27_BagNameCheck ==
    (tRun.called /\ tRun.headersRead >= 1 /\ tArchive.entries[1].type = "dir") =>
        IF TopDirOf(tArchive.entries[1].name) # TarBaseName
        THEN BagNameMismatchReported /\ tRun.extracted = <<>>
        ELSE ~BagNameMismatchReported

ManifestLacksAll(ingestManifest) ==
    /\ ingestManifest.hasObject
    /\ ingestManifest.Object.Identifier = ""
    /\ ingestManifest.Object.BagName = ""
    /\ ingestManifest.Object.Institution = ""
    /\ ingestManifest.Object.IngestTarFilePath = NoPath

ManifestComplete(ingestManifest) ==
    /\ ingestManifest.hasObject
    /\ ingestManifest.Object.Identifier # ""
    /\ ingestManifest.Object.BagName # ""
    /\ ingestManifest.Object.Institution # ""
    /\ ingestManifest.Object.tarFileKind = "file"

\* C28: in every call of Untar, ManifestInfoIsValid answers true exactly when
\* it added no error to the Untar summary; on a manifest without Identifier,
\* BagName, Institution and IngestTarFilePath the summary ends with exactly
\* five errors, the tar file was not opened, and the summary is attempted,
\* finished, with AttemptNumber one higher; on a complete manifest Untar
\* opens the archive.
C28_UntarPrecondition ==
    [][(~tRun.called /\ tRun'.called) =>
          /\ tRun'.valid <=> (tRun'.infoErrors = 0)
          /\ ManifestLacksAll(tManifest) =>
                /\ Len(tManifest'.Untar.Errors) = 5
                /\ ~tRun'.opened
                /\ tRun'.headersRead = 0
                /\ tManifest'.Untar.Attempted
                /\ tManifest'.Untar.AttemptNumber = tManifest.Untar.AttemptNumber + 1
                /\ tManifest'.Untar.Finished
          /\ ManifestComplete(tManifest) => tRun'.opened]_vars

\* The free space of the disk less the bytes of the reservations held.
SpaceLeft == volume.initialSpace - SumBytes(volHeld)

\* C29: every Reserve(path, n) succeeds exactly when n does not exceed the
\* initial free space less the bytes of the outstanding reservations; a
\* rejected Reserve leaves the reservations and the claimed space as they
\* were; and the request rejected last succeeds as soon as releases have
\* left enough space for it.
C29_ReserveWithinAvailable ==
    /\ [][volLast'.op = "Reserve" =>
            /\ ~volLast'.err <=> (volLast'.bytes <= SpaceLeft)
            /\ volLast'.err =>
                  /\ Reservations(volume') = Reservations(volume)
                  /\ ClaimedSpace(volume') = ClaimedSpace(volume)]_vars
    /\ []((volRejected # NoRequest /\ volRejected.bytes <= SpaceLeft) =>
             ~Reserve(volume, volRejected.path, volRejected.bytes).err)

\* A request that had been rejected is granted after a release.
C29_Witness ==
    /\ volLast.op = "Reserve"
    /\ ~volLast.err
    /\ volLast.wasRejected
    /\ volLast.bytes > 0

\* C30: whatever Reserve and Release calls were made, ClaimedSpace is the sum
\* of the bytes of the reservations held, Reservations() maps exactly the
\* paths reserved and not released since to their bytes, and a Release of a
\* path that was never reserved leaves the Volume as it was.
C30_VolumeLedger ==
    /\ [](/\ ClaimedSpace(volume) = SumBytes(volHeld)
          /\ Reservations(volume) = volHeld)
    /\ [][(volLast'.op = "Release" /\ volLast'.path \notin volEver) =>
            volume' = volume]_vars

\* A path never reserved is released while another reservation is held.
C30_Witness ==
    /\ volLast.op = "Release"
    /\ volLast.path \notin volEver
    /\ DOMAIN volHeld # {}
    /\ ClaimedSpace(volume) > 0

\* The volume service holds a reservation of the bag's size for the path.
ReservationGranted(copy) == <<copy.LocalPath, copy.Size>> \in cVolume.granted

\* C31: for every manifest doCopy has taken from CopyChannel, rsync was
\* started only if the volume service had granted a reservation of the bag's
\* size for the local path; without a granted reservation rsync was not
\* started and the broker message was requeued.
C31_ReserveBeforeCopy ==
    \A i \in DOMAIN cCopies :
        \/ ReservationGranted(cCopies[i])
        \/ /\ ~cCopies[i].rsyncStarted
           /\ cMessages[cCopies[i].message].requeued = 1

\* Every sync operation against every remote node completed without error.
AllSyncsClean ==
    /\ ~syncNodes.listError
    /\ \A n \in RemoteNodeNames : syncNodes.failsAt[n] = 0

\* C40: when Run has returned, its value is true exactly when the node list
\* was obtained and no sync step of any remote node recorded an error; the
\* local node had no step run; and for each remote node the steps run are a
\* prefix of node, members, bags, digests, fixities, replication requests,
\* restore requests that ends with the first step that recorded an error.
C40_SyncRunResult ==
    syncRun.done =>
        /\ syncRun.returned <=> AllSyncsClean
        /\ syncRun.steps[LocalNodeName] = <<>>
        /\ \A n \in RemoteNodeNames :
              \/ syncNodes.listError /\ syncRun.steps[n] = <<>>
              \/ /\ ~syncNodes.listError
                 /\ syncRun.steps[n] =
                       SubSeq(SyncSteps, 1,
                              IF syncNodes.failsAt[n] = 0 THEN Len(SyncSteps)
                              ELSE syncNodes.failsAt[n])

\* C38: a handling that found the object available in S3 and ended in
\* FinishWithSuccess has put the id of the DPNWorkItem on the download topic
\* or has requeued the broker message; the message is never finished with
\* the item on no queue.
C38_NoLostRestore ==
    (rPc = "idle" /\ rHist.finished = "success" /\ rState.isAvailableInS3) =>
        \/ rHist.enqueued = 1
        \/ rMsg.status = "requeued"

\* C39: a delivery for which GetRestoreState obtains no DPNWorkItem does not
\* make HandleMessage fail: no HEAD or restore request is issued and the
\* state is handed to Cleanup, which gives the message its one Finish or
\* Requeue.
C39_SetUpFailureHandled ==
    [][rMsg'.attempts = rMsg.attempts + 1 =>
          \/ rPc' \in {"request", "cleanup"}
          \/ /\ ~rHist'.panicked
             /\ rMsg'.status \in {"finished", "requeued"}]_vars

\* C36: at-most-one task, same process. While a task of a worker process is
\* in its store run of the WorkItem, no other task of the same process
\* (same node and pid) that has read the WorkItem as claimed by that process
\* with status Started gets past the in-progress check: the second delivery
\* is skipped and starts no second store run.
ReadAsClaimedByOwnProcess(t) ==
    /\ wk[t].item.node = ProcOf(t).node
    /\ wk[t].item.pid = ProcOf(t).pid
    /\ wk[t].item.status = StatusStarted

C36_NoSecondRunInProcess ==
    \A a, b \in Tasks :
        (a # b /\ ProcOf(a) = ProcOf(b) /\ wk[a].pc = "storing")
            => ~(wk[b].pc = "claiming" /\ ReadAsClaimedByOwnProcess(b))

\* C32: end state of record cleanup. When the cleanup branch of the record
\* worker has run for the WorkItem outside integration tests, no staging DB
\* file is at DBPath and no staging tar is at BagPath: no step of the
\* cleanup after the two deletes has created either file again.
C32_StagingEmptyAfterCleanup ==
    (cleanupRun.attempted /\ ~cleanupRun.integration) =>
        (~dbInStaging /\ ~bagInStaging)

\* C37: the WorkItem is marked succeeded at stage Cleanup only if the tar
\* was deleted from the receiving bucket or DeleteOnSuccess is false; a
\* delete that reported an error leaves the WorkItem not succeeded.
C37_SuccessOnlyAfterDelete ==
    (workItem.stage = StageCleanup /\ workItem.status = StatusSuccess) =>
        \/ ~cleanupRun.deleteOnSuccess
        \/ (tarDeleted /\ cleanupRun.errs = {})

\* C35: exactly-once hand-off in the store worker. Of the ingest states
\* taken from StorageChannel none is sent to CleanupChannel or to
\* RecordChannel more than once and none gets more than one Finish or
\* Requeue or more than one mark on the WorkItem; once the goroutines are at
\* rest each has had exactly one of each, also after a failed open of the
\* staging DB or a failed object identifier.
StorerAtRest ==
    /\ ~hoStorer.crashed
    /\ hoStorer.pc = "range"
    /\ hoStorer.recordPc = "range"
    /\ hoChan = [storage |-> 0, cleanup |-> 0, record |-> 0]

C35_ExactlyOnceHandOff ==
    /\ hoLedger.toCleanup <= hoLedger.taken
    /\ hoLedger.toRecord <= hoLedger.taken
    /\ hoLedger.responses <= hoLedger.taken
    /\ hoLedger.marks <= hoLedger.taken
    /\ StorerAtRest =>
          /\ hoLedger.toCleanup = hoLedger.taken
          /\ hoLedger.toRecord = hoLedger.taken
          /\ hoLedger.responses = hoLedger.taken
          /\ hoLedger.marks = hoLedger.taken

\* C33: the WorkItem state with the finished summary of the store stage is
\* in the registry before the id is on the record topic. Whenever the id is
\* on the record topic the registry's state holds a finished StoreResult,
\* and the state a record worker reads on receiving the id is never one
\* from before the end of the store stage.
StoreStageEnded(state) == state.store.attempt > 0 /\ state.store.finished

C33_StateBeforePush ==
    /\ hoBroker.record > 0 => StoreStageEnded(hoRegistry.state)
    /\ hoReader.received > 0 => StoreStageEnded(hoReader.state)

\* C34: batching in the store stage. In a store attempt without a
\* batch-fetch error the files are handed to saveFile in identifier order,
\* none twice, in batches of at most NetworkConnections files; no file of a
\* later batch is handed over while a saveFile of an earlier batch has not
\* returned; the loop ends for every file count, and when it has ended
\* every file of the staging DB has been handed over exactly once.
HandedInOrderOnce ==
    \A i, j \in DOMAIN btHanded :
        i < j => /\ btHanded[i].file < btHanded[j].file
                 /\ btHanded[i].batchNumber <= btHanded[j].batchNumber

BatchesWithinLimit ==
    \A k \in 1..btRun.batchNumber :
        Cardinality({i \in DOMAIN btHanded : btHanded[i].batchNumber = k}) <= btDb.limit

BatchesInSequence ==
    \A i, j \in DOMAIN btHanded :
        btHanded[i].batchNumber < btHanded[j].batchNumber
            => btHanded[i].file \in btReturned

AllHandedAtEnd ==
    (btRun.pc = "done" /\ ~btRun.fetchError) =>
        /\ {btHanded[i].file : i \in DOMAIN btHanded} = 1..btDb.fileCount
        /\ Len(btHanded) = btDb.fileCount
        /\ btReturned = 1..btDb.fileCount

C34_Batching ==
    /\ [](HandedInOrderOnce /\ BatchesWithinLimit /\ BatchesInSequence /\ AllHandedAtEnd)
    /\ <>(btRun.pc = "done")

C34_Witness ==
    /\ btRun.pc = "done"
    /\ ~btRun.fetchError
    /\ btDb.limit = 2
    /\ btDb.fileCount = 4
    /\ btRun.batchNumber = 3
    /\ Len(btHanded) = 4

====
